---- MODULE Spec2Model ----
(***************************************************************************)
(* Verification model of the repository acquisition and project-profiling  *)
(* subsystem of aidino/learn-agents (adk/agent-with-mcp/tools):            *)
(* LanguageIdentifierAgent.identify_language (SpecProfiler),               *)
(* GitOperationsAgent.clone_repository (SpecAcquirer) and                  *)
(* GitOperationsAgent.get_pr_details (SpecDiffer), with the PAT vault,     *)
(* the context assembler, the per-file scan (SpecScan, SpecPasses) and     *)
(* CodeFetcher (SpecFetcher, SpecPrDiff); and of the orchestrator of       *)
(* adk/code-review-agent: after_agent_callback (SpecOrchestrator), the     *)
(* review sub-agents (SpecSubagents) and the agent tools (SpecTools).      *)
(*                                                                         *)
(* Numbers: a percentage is kept in hundredths of a percent (3333 is       *)
(* 33.33, the value round(x, 2) yields), a confidence score in tenths      *)
(* (8 is 0.8).                                                             *)
(***************************************************************************)
EXTENDS Integers, Sequences, FiniteSets, TLC

VARIABLES
    li_pc,          \* LanguageIdentifierAgent: "idle" | "called" | "returned" | "raised"
    li_tree,        \* the directory tree at local_path of the current call
    li_scan,        \* identify_language's locals language_stats, config_analysis
    li_profile,     \* the ProjectLanguageProfile returned by the current call
    go_pc,          \* GitOperationsAgent.clone_repository: where the call stands
    go_call,        \* its arguments repo_url, local_path, branch, pat
    go_path,        \* its local variable local_path once it is set
    go_fs,          \* the directories of the file system, by path
    go_fs0,         \* go_fs as it was when the current call began
    go_clone,       \* the arguments of Repo.clone_from, once it was called
    go_result,      \* the RepositoryInfo returned or the exception raised
    go_calls,       \* the number of calls made so far
    pr_pc,          \* GitOperationsAgent.get_pr_details: where the call stands
    pr_call,        \* its arguments repo_url, pr_id, pat
    pr_pull,        \* the pull request fetched from the platform, its diff and files
    pr_result,      \* the PullRequestInfo returned or the exception raised
    api_available,  \* whether the import of the platform API libraries succeeded
    pv_key,         \* PATHandlerAgent.session_key, the key of its cipher
    pv_stored,      \* its stored_pats, the PATInfo entries in the order of the dict
    pv_issued,      \* what store_pat returned so far, and for which token
    pv_now,         \* the clock _get_current_timestamp reads
    pv_out,         \* what the last call returned, raised and logged
    pv_inputs,      \* which (platform, token) pairs callers validate: "few" | "all"
    dp_exists,      \* DataPreparationAgent: does repo_info.local_path exist
    dp_tree,        \* the nodes of the tree at repo_info.local_path
    dp_config,      \* include_test_files, max_file_size_bytes, exclude_extensions
    dp_profile,     \* the language profile handed to prepare_project_context
    dp_manifests,   \* the manifests at the root of the tree
    dp_out,         \* what the last prepare_project_context returned or raised
    cf_cloned,      \* CodeFetcherAgent.cloned_repos, the Repo of each key
    cf_disk,        \* the repositories in its workspace_dir
    cf_remote,      \* the remote and the pull request get_pr_diff reads
    cf_calls,       \* the number of calls made so far
    cf_out,         \* what the last call returned or raised, and its locals
    session_state,  \* the state of the session the orchestrator's agents share
    or_turns,       \* the number of callbacks and tool calls so far
    or_out,         \* what the last callback or tool call returned
    tl_out,         \* what the last tool of the security pipeline returned or raised
    sc_files,       \* the files of the tree _analyze_file_extensions walks
    sc_out          \* the language_stats it returned

li_vars == << li_pc, li_tree, li_scan, li_profile >>

go_vars == << go_pc, go_call, go_path, go_fs, go_fs0, go_clone, go_result, go_calls >>

pr_vars == << pr_pc, pr_call, pr_pull, pr_result, api_available >>

pv_vars == << pv_key, pv_stored, pv_issued, pv_now, pv_out, pv_inputs >>

dp_vars == << dp_exists, dp_tree, dp_config, dp_profile, dp_manifests, dp_out >>

cf_vars == << cf_cloned, cf_disk, cf_remote, cf_calls, cf_out >>

or_vars == << session_state, or_turns, or_out >>

tl_vars == << tl_out >>

sc_vars == << sc_files, sc_out >>

vars == << li_vars, go_vars, pr_vars, pv_vars, dp_vars, cf_vars, or_vars, tl_vars,
          sc_vars >>

\* the variables the operations of an agent leave alone
li_others == << go_vars, pr_vars, pv_vars, dp_vars,
               cf_vars, or_vars, tl_vars, sc_vars >>

go_others == << li_vars, pr_vars, pv_vars, dp_vars,
               cf_vars, or_vars, tl_vars, sc_vars >>

pr_others == << li_vars, go_vars, pv_vars, dp_vars,
               cf_vars, or_vars, tl_vars, sc_vars >>

pv_others == << li_vars, go_vars, pr_vars, dp_vars,
               cf_vars, or_vars, tl_vars, sc_vars >>

dp_others == << li_vars, go_vars, pr_vars, pv_vars,
               cf_vars, or_vars, tl_vars, sc_vars >>

cf_others == << li_vars, go_vars, pr_vars, pv_vars, dp_vars, or_vars, tl_vars,
               sc_vars >>

or_others == << li_vars, go_vars, pr_vars, pv_vars, dp_vars, cf_vars, tl_vars,
               sc_vars >>

tl_others == << li_vars, go_vars, pr_vars, pv_vars, dp_vars, cf_vars, or_vars,
               sc_vars >>

sc_others == << li_vars, go_vars, pr_vars, pv_vars, dp_vars, cf_vars, or_vars,
               tl_vars >>

-----------------------------------------------------------------------------
(* Bounds of the input trees.                                              *)

\* at most this many plain source files in a small tree
MaxFiles == 4

\* at most this many pieces of evidence (named files, content hits,
\* manifest dependencies) in a tree
MaxEvidence == 2

\* a large repository holds this many extra files of each of the first two
\* plain kinds
LargeRepo == 5000

\* at most this many clone_repository calls in a run
MaxCalls == 2

\* the vault's clock stops at this reading
MaxClock == 4

\* at most this many directories and files in a tree that is assembled
MaxNodes == 3

\* at most this many changed lines in the patch of a pull request
MaxLines == 2

\* at most this many files in a tree whose extensions are scanned file by file
MaxScanFiles == 3

\* at most this many get_pr_diff calls in a run
MaxDiffCalls == 1

\* at most this many after_agent_callback calls in a session
MaxTurns == 4

\* at most this many calls of a sub-agent's callback or tool in a session
MaxToolCalls == 2

-----------------------------------------------------------------------------
(* Generic helpers.                                                        *)

NoValue == "none"

RECURSIVE SumTo(_, _)
SumTo(f, n) == IF n = 0 THEN 0 ELSE f[n] + SumTo(f, n - 1)

\* the sum of a sequence of numbers
SumSeq(s) == SumTo(s, Len(s))

SeqToSet(s) == { s[i] : i \in DOMAIN s }

\* str.lower() on the extensions and names that occur in the trees
Lower(s) ==
    CASE s = ".JAVA" -> ".java"
      [] s = "GitHub.com" -> "github.com"
      [] s = "GitHub" -> "github"
      [] s = "GITLAB" -> "gitlab"
      [] s = ".PY"   -> ".py"
      [] s = ".H"    -> ".h"
      [] s = ".PNG"  -> ".png"
      [] s = "LOGO.PNG" -> "logo.png"
      [] s = "Python" -> "python"
      [] s = "PYTHON" -> "python"
      [] s = "JavaScript" -> "javascript"
      [] s = "TypeScript" -> "typescript"
      [] s = "Java" -> "java"
      [] s = "Dart" -> "dart"
      [] s = "Go" -> "go"
      [] s = "Unknown" -> "unknown"
      [] OTHER       -> s

\* str.startswith('.') on the names that occur in the trees
StartsWithDot(name) == name \in {".git", ".github", ".venv", ".env", ".gemspec"}

\* the substring test  '.git' in root  on the directory names of the trees
ContainsDotGit(dir) == dir \in {".git", ".github"}

-----------------------------------------------------------------------------
(* LanguageIdentifierAgent.__init__: the static tables.                    *)

language_extensions ==
  << [lang |-> "Python", exts |-> {".py", ".pyw", ".pyi"}],
     [lang |-> "Java", exts |-> {".java"}],
     [lang |-> "JavaScript", exts |-> {".js", ".jsx", ".mjs"}],
     [lang |-> "TypeScript", exts |-> {".ts", ".tsx"}],
     [lang |-> "Dart", exts |-> {".dart"}],
     [lang |-> "Kotlin", exts |-> {".kt", ".kts"}],
     [lang |-> "C++", exts |-> {".cpp", ".cxx", ".cc", ".c++", ".hpp", ".hxx", ".h++"}],
     [lang |-> "C", exts |-> {".c", ".h"}],
     [lang |-> "C#", exts |-> {".cs"}],
     [lang |-> "Go", exts |-> {".go"}],
     [lang |-> "Rust", exts |-> {".rs"}],
     [lang |-> "Ruby", exts |-> {".rb"}],
     [lang |-> "PHP", exts |-> {".php"}],
     [lang |-> "Swift", exts |-> {".swift"}],
     [lang |-> "Objective-C", exts |-> {".m", ".mm", ".h"}],
     [lang |-> "Shell", exts |-> {".sh", ".bash", ".zsh"}],
     [lang |-> "HTML", exts |-> {".html", ".htm"}],
     [lang |-> "CSS", exts |-> {".css", ".scss", ".sass", ".less"}],
     [lang |-> "XML", exts |-> {".xml", ".xsd", ".xsl"}],
     [lang |-> "JSON", exts |-> {".json"}],
     [lang |-> "YAML", exts |-> {".yml", ".yaml"}],
     [lang |-> "Markdown", exts |-> {".md", ".markdown"}],
     [lang |-> "SQL", exts |-> {".sql"}] >>

config_files ==
  << [lang |-> "Python", patterns |->
        << [wild |-> FALSE, stem |-> "requirements", ext |-> ".txt"],
           [wild |-> FALSE, stem |-> "pyproject", ext |-> ".toml"],
           [wild |-> FALSE, stem |-> "setup", ext |-> ".py"],
           [wild |-> FALSE, stem |-> "setup", ext |-> ".cfg"],
           [wild |-> FALSE, stem |-> "Pipfile", ext |-> ""],
           [wild |-> FALSE, stem |-> "poetry", ext |-> ".lock"],
           [wild |-> FALSE, stem |-> "conda", ext |-> ".yml"],
           [wild |-> FALSE, stem |-> "environment", ext |-> ".yml"] >>],
     [lang |-> "Java", patterns |->
        << [wild |-> FALSE, stem |-> "pom", ext |-> ".xml"],
           [wild |-> FALSE, stem |-> "build", ext |-> ".gradle"],
           [wild |-> FALSE, stem |-> "gradle", ext |-> ".properties"],
           [wild |-> FALSE, stem |-> "ivy", ext |-> ".xml"],
           [wild |-> FALSE, stem |-> "ant", ext |-> ".xml"],
           [wild |-> FALSE, stem |-> "build", ext |-> ".xml"] >>],
     [lang |-> "JavaScript", patterns |->
        << [wild |-> FALSE, stem |-> "package", ext |-> ".json"],
           [wild |-> FALSE, stem |-> "package-lock", ext |-> ".json"],
           [wild |-> FALSE, stem |-> "yarn", ext |-> ".lock"],
           [wild |-> FALSE, stem |-> "webpack.config", ext |-> ".js"],
           [wild |-> FALSE, stem |-> "babel.config", ext |-> ".js"],
           [wild |-> FALSE, stem |-> "tsconfig", ext |-> ".json"] >>],
     [lang |-> "TypeScript", patterns |->
        << [wild |-> FALSE, stem |-> "tsconfig", ext |-> ".json"],
           [wild |-> FALSE, stem |-> "package", ext |-> ".json"],
           [wild |-> FALSE, stem |-> "webpack.config", ext |-> ".ts"] >>],
     [lang |-> "Dart", patterns |->
        << [wild |-> FALSE, stem |-> "pubspec", ext |-> ".yaml"],
           [wild |-> FALSE, stem |-> "pubspec", ext |-> ".lock"],
           [wild |-> FALSE, stem |-> "analysis_options", ext |-> ".yaml"] >>],
     [lang |-> "Kotlin", patterns |->
        << [wild |-> FALSE, stem |-> "build.gradle", ext |-> ".kts"],
           [wild |-> FALSE, stem |-> "settings.gradle", ext |-> ".kts"],
           [wild |-> FALSE, stem |-> "pom", ext |-> ".xml"] >>],
     [lang |-> "C++", patterns |->
        << [wild |-> FALSE, stem |-> "CMakeLists", ext |-> ".txt"],
           [wild |-> FALSE, stem |-> "Makefile", ext |-> ""],
           [wild |-> FALSE, stem |-> "configure", ext |-> ".ac"],
           [wild |-> FALSE, stem |-> "meson", ext |-> ".build"] >>],
     [lang |-> "C", patterns |->
        << [wild |-> FALSE, stem |-> "Makefile", ext |-> ""],
           [wild |-> FALSE, stem |-> "CMakeLists", ext |-> ".txt"],
           [wild |-> FALSE, stem |-> "configure", ext |-> ".ac"] >>],
     [lang |-> "C#", patterns |->
        << [wild |-> TRUE, stem |-> "", ext |-> ".csproj"],
           [wild |-> TRUE, stem |-> "", ext |-> ".sln"],
           [wild |-> FALSE, stem |-> "packages", ext |-> ".config"],
           [wild |-> FALSE, stem |-> "project", ext |-> ".json"] >>],
     [lang |-> "Go", patterns |->
        << [wild |-> FALSE, stem |-> "go", ext |-> ".mod"],
           [wild |-> FALSE, stem |-> "go", ext |-> ".sum"],
           [wild |-> FALSE, stem |-> "Gopkg", ext |-> ".toml"],
           [wild |-> FALSE, stem |-> "Gopkg", ext |-> ".lock"] >>],
     [lang |-> "Rust", patterns |->
        << [wild |-> FALSE, stem |-> "Cargo", ext |-> ".toml"],
           [wild |-> FALSE, stem |-> "Cargo", ext |-> ".lock"] >>],
     [lang |-> "Ruby", patterns |->
        << [wild |-> FALSE, stem |-> "Gemfile", ext |-> ""],
           [wild |-> FALSE, stem |-> "Gemfile", ext |-> ".lock"],
           [wild |-> FALSE, stem |-> ".gemspec", ext |-> ""] >>],
     [lang |-> "PHP", patterns |->
        << [wild |-> FALSE, stem |-> "composer", ext |-> ".json"],
           [wild |-> FALSE, stem |-> "composer", ext |-> ".lock"] >>],
     [lang |-> "Swift", patterns |->
        << [wild |-> FALSE, stem |-> "Package", ext |-> ".swift"],
           [wild |-> TRUE, stem |-> "", ext |-> ".xcodeproj"],
           [wild |-> TRUE, stem |-> "", ext |-> ".xcworkspace"] >>] >>

framework_indicators ==
  << [lang |-> "Python", framework |-> "Django", indicators |-> << "manage.py", "settings.py", "urls.py" >>],
     [lang |-> "Python", framework |-> "Flask", indicators |-> << "app.py", "wsgi.py" >>],
     [lang |-> "Python", framework |-> "FastAPI", indicators |-> << "main.py" >>],
     [lang |-> "Python", framework |-> "Streamlit", indicators |-> << "streamlit" >>],
     [lang |-> "Python", framework |-> "Jupyter", indicators |-> << ".ipynb" >>],
     [lang |-> "JavaScript", framework |-> "React", indicators |-> << "react", "jsx" >>],
     [lang |-> "JavaScript", framework |-> "Vue", indicators |-> << "vue" >>],
     [lang |-> "JavaScript", framework |-> "Angular", indicators |-> << "@angular" >>],
     [lang |-> "JavaScript", framework |-> "Node.js", indicators |-> << "express", "node" >>],
     [lang |-> "JavaScript", framework |-> "Next.js", indicators |-> << "next" >>],
     [lang |-> "Java", framework |-> "Spring", indicators |-> << "spring", "SpringApplication" >>],
     [lang |-> "Java", framework |-> "Android", indicators |-> << "android", "MainActivity" >>],
     [lang |-> "Java", framework |-> "Maven", indicators |-> << "pom.xml" >>],
     [lang |-> "Java", framework |-> "Gradle", indicators |-> << "build.gradle" >>],
     [lang |-> "Dart", framework |-> "Flutter", indicators |-> << "flutter", "pubspec.yaml" >>],
     [lang |-> "Dart", framework |-> "Angular Dart", indicators |-> << "angular" >>] >>


\* the dependency-name -> label map of _analyze_package_json, in its order
package_framework_mapping ==
  << [dep |-> "react",         label |-> [lang |-> "JavaScript", framework |-> "React"]],
     [dep |-> "vue",           label |-> [lang |-> "JavaScript", framework |-> "Vue.js"]],
     [dep |-> "@angular/core", label |-> [lang |-> "JavaScript", framework |-> "Angular"]],
     [dep |-> "express",       label |-> [lang |-> "JavaScript", framework |-> "Express"]],
     [dep |-> "next",          label |-> [lang |-> "JavaScript", framework |-> "Next.js"]],
     [dep |-> "gatsby",        label |-> [lang |-> "JavaScript", framework |-> "Gatsby"]],
     [dep |-> "svelte",        label |-> [lang |-> "JavaScript", framework |-> "Svelte"]] >>

\* the package-name -> label map of _analyze_requirements_txt, in its order
requirements_framework_mapping ==
  << [dep |-> "django",     label |-> [lang |-> "Python", framework |-> "Django"]],
     [dep |-> "flask",      label |-> [lang |-> "Python", framework |-> "Flask"]],
     [dep |-> "fastapi",    label |-> [lang |-> "Python", framework |-> "FastAPI"]],
     [dep |-> "streamlit",  label |-> [lang |-> "Python", framework |-> "Streamlit"]],
     [dep |-> "jupyter",    label |-> [lang |-> "Python", framework |-> "Jupyter"]],
     [dep |-> "numpy",      label |-> [lang |-> "Python", framework |-> "NumPy/Scientific"]],
     [dep |-> "tensorflow", label |-> [lang |-> "Python", framework |-> "TensorFlow"]],
     [dep |-> "pytorch",    label |-> [lang |-> "Python", framework |-> "PyTorch"]] >>

\* directories the extension scan never enters (besides hidden ones)
skipped_directories ==
    {"node_modules", "__pycache__", "venv", "env", "build", "dist", "target", ".git"}

\* tool_mapping of _extract_build_tools, keyed by (stem, extension)
tool_mapping ==
    { << << "pom", ".xml" >>, "Maven" >>,
      << << "build", ".gradle" >>, "Gradle" >>,
      << << "CMakeLists", ".txt" >>, "CMake" >>,
      << << "Makefile", "" >>, "Make" >>,
      << << "setup", ".py" >>, "Python setuptools" >>,
      << << "pyproject", ".toml" >>, "Python build" >>,
      << << "Cargo", ".toml" >>, "Cargo" >> }

\* manager_mapping of _extract_package_managers, keyed by (stem, extension)
manager_mapping ==
    { << << "package", ".json" >>, "npm/yarn" >>,
      << << "requirements", ".txt" >>, "pip" >>,
      << << "Pipfile", "" >>, "pipenv" >>,
      << << "poetry", ".lock" >>, "poetry" >>,
      << << "pubspec", ".yaml" >>, "pub" >>,
      << << "Gemfile", "" >>, "bundler" >>,
      << << "composer", ".json" >>, "composer" >>,
      << << "go", ".mod" >>, "go modules" >> }

-----------------------------------------------------------------------------
(* The directory trees identify_language is run on.  A tree holds          *)
(*   plain    : per plain kind, how many ordinary source files f<i><ext>   *)
(*              lie in the sub-directory src,                              *)
(*   special  : which of the named files below it contains,                *)
(*   content  : the indicator strings that occur in the first 1000         *)
(*              characters of some .py/.js/.java/.dart file,               *)
(*   dependencies, requirements : the package names package.json and       *)
(*              requirements.txt (in the root) mention.                    *)

PlainExts == << ".py", ".java", ".js", ".h" >>

SpecialFiles ==
  << [stem |-> "setup",        ext |-> ".py",   dir |-> ""],
     [stem |-> "Dockerfile",   ext |-> "",      dir |-> ""],
     [stem |-> "go",           ext |-> ".mod",  dir |-> ""],
     [stem |-> "package",      ext |-> ".json", dir |-> ""],
     [stem |-> "requirements", ext |-> ".txt",  dir |-> ""],
     [stem |-> "package",      ext |-> ".json", dir |-> "node_modules"],
     [stem |-> "Main",         ext |-> ".JAVA", dir |-> "src"] >>

ContentUniverse == {"android", "react", "urls.py", "streamlit"}

DependencyUniverse == {"react", "express"}

RequirementUniverse == {"django", "jupyter"}

PackageJson == [stem |-> "package", ext |-> ".json", dir |-> ""]

RequirementsTxt == [stem |-> "requirements", ext |-> ".txt", dir |-> ""]

\* the files of a tree: per plain kind that occurs, the group of its files
\* with their number; then the named files the tree contains
TreeFiles(tree) ==
    SelectSeq(
        [i \in 1..Len(PlainExts) |->
            [stem |-> "f", ext |-> PlainExts[i], dir |-> "src",
             count |-> tree.plain[i]]]
        \o
        [i \in 1..Len(SpecialFiles) |->
            [stem |-> SpecialFiles[i].stem, ext |-> SpecialFiles[i].ext,
             dir |-> SpecialFiles[i].dir,
             count |-> IF SpecialFiles[i] \in tree.special THEN 1 ELSE 0]],
        LAMBDA f : f.count > 0)

\* file.endswith(('.py', '.js', '.java', '.dart')), case-sensitive
Searchable(f) == f.ext \in {".py", ".js", ".java", ".dart"}

PlainCounts ==
    { c \in [1..Len(PlainExts) -> 0..MaxFiles] :
        SumSeq(c) <= MaxFiles }

Evidence(t) ==
    Cardinality(t.special) + Cardinality(t.content)
        + Cardinality(t.dependencies) + Cardinality(t.requirements)

SmallTrees ==
    { t \in [exists : {TRUE}, plain : PlainCounts,
             special : SUBSET SeqToSet(SpecialFiles),
             content : SUBSET ContentUniverse,
             dependencies : SUBSET DependencyUniverse,
             requirements : SUBSET RequirementUniverse] :
        /\ Evidence(t) <= MaxEvidence
        /\ t.dependencies # {} => PackageJson \in t.special
        /\ t.requirements # {} => RequirementsTxt \in t.special
        /\ t.content # {} =>
             \E i \in 1..Len(TreeFiles(t)) : Searchable(TreeFiles(t)[i]) }

\* a large repository: LargeRepo more files of each of the first two kinds
Enlarge(t) ==
    [t EXCEPT !.plain = [i \in 1..Len(PlainExts) |->
                            IF i <= 2 THEN t.plain[i] + LargeRepo ELSE t.plain[i]]]

NoTree ==
    [exists |-> FALSE, plain |-> [i \in 1..Len(PlainExts) |-> 0], special |-> {},
     content |-> {}, dependencies |-> {}, requirements |-> {}]

Trees ==
    SmallTrees
    \cup { Enlarge(t) : t \in { s \in SmallTrees : Evidence(s) = 0 } }
    \cup { NoTree }

-----------------------------------------------------------------------------
(* LanguageIdentifierAgent: the scans.                                     *)

\* index in language_extensions of the first language whose extension list
\* holds the lower-cased extension; 0 when there is none
MatchingLanguage(ext) ==
    LET hits == { i \in 1..Len(language_extensions) :
                    Lower(ext) \in language_extensions[i].exts }
    IN  IF hits = {} THEN 0 ELSE CHOOSE i \in hits : \A j \in hits : i <= j

\* the extension scan enters neither hidden nor known non-source directories,
\* and passes over hidden files
Scanned(f) ==
    /\ ~(f.dir # "" /\ (StartsWithDot(f.dir) \/ f.dir \in skipped_directories))
    /\ ~StartsWithDot(f.stem)

\* the number of files the scan attributes to language lang (langs[k] is the
\* language the files of group k match)
CountFor(files, langs, lang) ==
    SumSeq([k \in 1..Len(files) |-> IF langs[k] = lang THEN files[k].count ELSE 0])

\* _analyze_file_extensions: per language of the table, in table order, the
\* number of files attributed to it; languages without a file are dropped
AnalyzeFileExtensions(tree) ==
    LET files == SelectSeq(TreeFiles(tree), Scanned)
        langs == [k \in 1..Len(files) |-> MatchingLanguage(files[k].ext)]
        found == { langs[k] : k \in 1..Len(files) } \ {0}
        all == [i \in 1..Len(language_extensions) |->
                   [lang |-> language_extensions[i].lang,
                    file_count |-> IF i \in found THEN CountFor(files, langs, i)
                                   ELSE 0]]
    IN  SelectSeq(all, LAMBDA s : s.file_count > 0)

PatternMatches(f, pattern) ==
    IF pattern.wild THEN f.ext = pattern.ext
    ELSE f.stem = pattern.stem /\ f.ext = pattern.ext

\* _analyze_config_files: the (language, file) pairs found; every directory
\* is walked except those with '.git' in their path
AnalyzeConfigFiles(tree) ==
    LET files == TreeFiles(tree)
    IN  { [lang |-> config_files[l].lang,
           file |-> << files[i].stem, files[i].ext >>] :
            << l, i >> \in
              { p \in (1..Len(config_files)) \X (1..Len(files)) :
                  /\ ~ContainsDotGit(files[p[2]].dir)
                  /\ \E k \in 1..Len(config_files[p[1]].patterns) :
                        PatternMatches(files[p[2]], config_files[p[1]].patterns[k]) } }

\* os.path.splitext of the indicator strings that are file names
SplitName(indicator) ==
    CASE indicator = "manage.py"    -> << "manage", ".py" >>
      [] indicator = "settings.py"  -> << "settings", ".py" >>
      [] indicator = "urls.py"      -> << "urls", ".py" >>
      [] indicator = "app.py"       -> << "app", ".py" >>
      [] indicator = "wsgi.py"      -> << "wsgi", ".py" >>
      [] indicator = "main.py"      -> << "main", ".py" >>
      [] indicator = "pom.xml"      -> << "pom", ".xml" >>
      [] indicator = "build.gradle" -> << "build", ".gradle" >>
      [] indicator = "pubspec.yaml" -> << "pubspec", ".yaml" >>
      [] indicator = "setup.py"     -> << "setup", ".py" >>
      [] indicator = "package.json" -> << "package", ".json" >>
      [] indicator = "requirements.txt" -> << "requirements", ".txt" >>
      [] indicator = "pyproject.toml" -> << "pyproject", ".toml" >>
      [] OTHER                      -> << indicator, "" >>

\* os.path.exists(os.path.join(path, name)): a file of the root, or a
\* directory of the root, of that name
ExistsInRoot(tree, name) ==
    LET files == TreeFiles(tree)
    IN  \E i \in 1..Len(files) :
            \/ files[i].dir = "" /\ << files[i].stem, files[i].ext >> = SplitName(name)
            \/ files[i].dir # "" /\ files[i].dir = name

\* indicator in content, for the strings of ContentUniverse
OccursIn(indicator, text) == indicator = text

\* _check_framework_indicators: an indicator is a path of the root, or occurs
\* in the head of a searchable file outside the '.git' directories
CheckFrameworkIndicators(tree, indicators) ==
    LET files == TreeFiles(tree)
        searchable == \E i \in 1..Len(files) :
                          /\ ~ContainsDotGit(files[i].dir)
                          /\ Searchable(files[i])
    IN  \E k \in 1..Len(indicators) :
            \/ ExistsInRoot(tree, indicators[k])
            \/ searchable /\ \E c \in tree.content : OccursIn(indicators[k], c)

\* _analyze_package_json / _analyze_requirements_txt: the labels of the
\* mapping, in its order, whose package is mentioned
MappedLabels(mapping, mentioned) ==
    LET hit == SelectSeq(mapping, LAMBDA m : m.dep \in mentioned)
    IN  [i \in 1..Len(hit) |-> hit[i].label]

RECURSIVE IndicatedFrameworks(_, _, _)
\* the first loop of _detect_frameworks: language by language in
\* language_stats order, the frameworks of that language whose indicators
\* are present, as "<language>: <framework>" labels
IndicatedFrameworks(tree, language_stats, n) ==
    IF n = 0 THEN << >>
    ELSE LET rows == SelectSeq(framework_indicators,
                        LAMBDA r : r.lang = language_stats[n].lang
                                   /\ CheckFrameworkIndicators(tree, r.indicators))
         IN  IndicatedFrameworks(tree, language_stats, n - 1)
             \o [i \in 1..Len(rows) |-> [lang |-> rows[i].lang,
                                         framework |-> rows[i].framework]]

\* _detect_frameworks
DetectFrameworks(tree, language_stats) ==
    IndicatedFrameworks(tree, language_stats, Len(language_stats))
    \o (IF ExistsInRoot(tree, "package.json")
        THEN MappedLabels(package_framework_mapping, tree.dependencies)
        ELSE << >>)
    \o (IF ExistsInRoot(tree, "requirements.txt")
        THEN MappedLabels(requirements_framework_mapping, tree.requirements)
        ELSE << >>)

\* the keywords of _determine_project_type that occur in a lower-cased
\* framework name
KeywordsOf(framework) ==
    CASE framework = "Flutter"      -> {"flutter"}
      [] framework = "Android"      -> {"android"}
      [] framework = "React"        -> {"react"}
      [] framework = "Vue"          -> {"vue"}
      [] framework = "Vue.js"       -> {"vue"}
      [] framework = "Angular"      -> {"angular"}
      [] framework = "Angular Dart" -> {"angular"}
      [] framework = "Express"      -> {"express"}
      [] framework = "Django"       -> {"django"}
      [] framework = "Flask"        -> {"flask"}
      [] framework = "Streamlit"    -> {"streamlit"}
      [] framework = "Jupyter"      -> {"jupyter"}
      [] OTHER                      -> {}

\* keyword in ' '.join(frameworks).lower()
InFrameworkStr(frameworks, keyword) ==
    \E i \in 1..Len(frameworks) : keyword \in KeywordsOf(frameworks[i].framework)

\* a variant that looks at the root files before the framework labels
DetermineProjectTypeFilesFirst(tree, frameworks) ==
    IF ExistsInRoot(tree, "setup.py") \/ ExistsInRoot(tree, "pyproject.toml")
    THEN "library"
    ELSE IF ExistsInRoot(tree, "Dockerfile")
    THEN "containerized_app"
    ELSE IF InFrameworkStr(frameworks, "flutter") \/ InFrameworkStr(frameworks, "android")
    THEN "mobile"
    ELSE IF \/ InFrameworkStr(frameworks, "react")
            \/ InFrameworkStr(frameworks, "vue")
            \/ InFrameworkStr(frameworks, "angular")
    THEN "web_frontend"
    ELSE IF \/ InFrameworkStr(frameworks, "express")
            \/ InFrameworkStr(frameworks, "django")
            \/ InFrameworkStr(frameworks, "flask")
    THEN "web_backend"
    ELSE IF InFrameworkStr(frameworks, "streamlit") \/ InFrameworkStr(frameworks, "jupyter")
    THEN "data_science"
    ELSE "general"

\* _determine_project_type
DetermineProjectType(tree, frameworks) ==
    IF InFrameworkStr(frameworks, "flutter") \/ InFrameworkStr(frameworks, "android")
    THEN "mobile"
    ELSE IF \/ InFrameworkStr(frameworks, "react")
            \/ InFrameworkStr(frameworks, "vue")
            \/ InFrameworkStr(frameworks, "angular")
    THEN "web_frontend"
    ELSE IF \/ InFrameworkStr(frameworks, "express")
            \/ InFrameworkStr(frameworks, "django")
            \/ InFrameworkStr(frameworks, "flask")
    THEN "web_backend"
    ELSE IF InFrameworkStr(frameworks, "streamlit") \/ InFrameworkStr(frameworks, "jupyter")
    THEN "data_science"
    ELSE IF ExistsInRoot(tree, "setup.py") \/ ExistsInRoot(tree, "pyproject.toml")
    THEN "library"
    ELSE IF ExistsInRoot(tree, "Dockerfile")
    THEN "containerized_app"
    ELSE "general"

TotalFiles(language_stats) ==
    SumSeq([i \in 1..Len(language_stats) |-> language_stats[i].file_count])

Min(a, b) == IF a <= b THEN a ELSE b

\* a variant that counts a config file only when a file matched
CalculateConfidenceFilesFirst(language_stats, config_analysis) ==
    IF TotalFiles(language_stats) > 0
    THEN Min(5 + (IF config_analysis # {} THEN 3 ELSE 0)
               + (IF Len(language_stats) > 1 THEN 1 ELSE 0), 10)
    ELSE 0

\* a variant with the two boosts exchanged
CalculateConfidenceSwapped(language_stats, config_analysis) ==
    Min((IF TotalFiles(language_stats) > 0 THEN 5 ELSE 0)
        + (IF config_analysis # {} THEN 1 ELSE 0)
        + (IF Len(language_stats) > 1 THEN 3 ELSE 0),
        10)

\* _calculate_confidence, in tenths
CalculateConfidence(language_stats, config_analysis) ==
    Min((IF TotalFiles(language_stats) > 0 THEN 5 ELSE 0)
        + (IF config_analysis # {} THEN 3 ELSE 0)
        + (IF Len(language_stats) > 1 THEN 1 ELSE 0),
        10)

\* round(x, 2) of x = num / den * 100, in hundredths: num * 10000 / den
\* rounded to the nearest integer, a tie going to the even one
RoundHalfEven(num, den) ==
    LET q == num \div den
        r == num % den
    IN  IF 2 * r < den THEN q
        ELSE IF 2 * r > den THEN q + 1
        ELSE IF q % 2 = 0 THEN q ELSE q + 1

\* a variant that cuts the share off after two decimals instead of rounding
PercentageTruncated(file_count, total_files) ==
    (file_count * 10000) \div total_files

Percentage(file_count, total_files) ==
    RoundHalfEven(file_count * 10000, total_files)

RECURSIVE InsertDescending(_, _)
\* x goes behind every entry whose percentage is not smaller: equal entries
\* keep the order in which they arrive
InsertDescending(sorted, x) ==
    IF sorted = << >> THEN << x >>
    ELSE IF Head(sorted).percentage >= x.percentage
         THEN << Head(sorted) >> \o InsertDescending(Tail(sorted), x)
         ELSE << x >> \o sorted

RECURSIVE InsertAscending(_, _)
InsertAscending(sorted, x) ==
    IF sorted = << >> THEN << x >>
    ELSE IF Head(sorted).percentage <= x.percentage
         THEN << Head(sorted) >> \o InsertAscending(Tail(sorted), x)
         ELSE << x >> \o sorted

RECURSIVE SortAscending(_, _)
\* a variant that forgets reverse=True
SortAscending(s, n) ==
    IF n = 0 THEN << >> ELSE InsertAscending(SortAscending(s, n - 1), s[n])

\* a variant that sorts ascending and reverses the list: equal entries come
\* out in reverse order
SortReversed(s, n) ==
    LET up == SortAscending(s, n)
    IN  [i \in 1..Len(up) |-> up[Len(up) + 1 - i]]

RECURSIVE SortDescending(_, _)
\* list.sort(key=percentage, reverse=True): stable
SortDescending(s, n) ==
    IF n = 0 THEN << >> ELSE InsertDescending(SortDescending(s, n - 1), s[n])

\* languages.sort(key=lambda x: x.percentage, reverse=True)
SortLanguages(s, n) == SortDescending(s, n)

\* _create_language_info_list
CreateLanguageInfoList(language_stats) ==
    LET total_files == TotalFiles(language_stats)
        languages == [i \in 1..Len(language_stats) |->
                        [name |-> language_stats[i].lang,
                         percentage |-> Percentage(language_stats[i].file_count,
                                                   total_files),
                         file_count |-> language_stats[i].file_count]]
    IN  IF total_files = 0 THEN << >>
        ELSE SortLanguages(languages, Len(languages))

\* _extract_build_tools
ExtractBuildTools(config_analysis) ==
    { m[2] : m \in { m \in tool_mapping : \E c \in config_analysis : c.file = m[1] } }

\* _extract_package_managers
ExtractPackageManagers(config_analysis) ==
    { m[2] : m \in { m \in manager_mapping : \E c \in config_analysis : c.file = m[1] } }

\* identify_language on an existing path, from the two scans
Profile(tree, language_stats, config_analysis) ==
    LET frameworks == DetectFrameworks(tree, language_stats)
        languages == CreateLanguageInfoList(language_stats)
    IN  [primary_language |-> IF languages # << >> THEN languages[1].name
                              ELSE "Unknown",
         languages |-> languages,
         frameworks |-> frameworks,
         build_tools |-> ExtractBuildTools(config_analysis),
         package_managers |-> ExtractPackageManagers(config_analysis),
         project_type |-> DetermineProjectType(tree, frameworks),
         confidence_score |-> CalculateConfidence(language_stats, config_analysis)]

NoProfile ==
    [primary_language |-> NoValue, languages |-> << >>, frameworks |-> << >>,
     build_tools |-> {}, package_managers |-> {}, project_type |-> NoValue,
     confidence_score |-> 0]

NoScan == [language_stats |-> << >>, config_analysis |-> {}]

-----------------------------------------------------------------------------
(* LanguageIdentifierAgent: the calls.                                     *)

LiInit ==
    /\ li_pc = "idle"
    /\ li_tree = NoTree
    /\ li_scan = NoScan
    /\ li_profile = NoProfile

\* a caller hands identify_language a path
CallIdentifyLanguage ==
    /\ li_pc = "idle"
    /\ \E t \in Trees : li_tree' = t
    /\ li_pc' = "called"
    /\ UNCHANGED << li_scan, li_profile, li_others >>

\* identify_language, the path exists
IdentifyLanguage ==
    /\ li_pc = "called"
    /\ li_tree.exists
    /\ LET language_stats == AnalyzeFileExtensions(li_tree)
           config_analysis == AnalyzeConfigFiles(li_tree)
       IN  /\ li_scan' = [language_stats |-> language_stats,
                          config_analysis |-> config_analysis]
           /\ li_profile' = Profile(li_tree, language_stats, config_analysis)
    /\ li_pc' = "returned"
    /\ UNCHANGED << li_tree, li_others >>

\* identify_language, the path does not exist: FileNotFoundError
IdentifyLanguageNotFound ==
    /\ li_pc = "called"
    /\ ~li_tree.exists
    /\ li_pc' = "raised"
    /\ UNCHANGED << li_tree, li_scan, li_profile, li_others >>

\* the caller takes the result; the agent is ready for the next path
ReturnProfile ==
    /\ li_pc \in {"returned", "raised"}
    /\ li_pc' = "idle"
    /\ li_tree' = NoTree
    /\ li_scan' = NoScan
    /\ li_profile' = NoProfile
    /\ UNCHANGED li_others

LiNext ==
    \/ CallIdentifyLanguage
    \/ IdentifyLanguage
    \/ IdentifyLanguageNotFound
    \/ ReturnProfile

-----------------------------------------------------------------------------
(* Repository URLs.  A URL https://<host>/<segment>/.../<segment>[.git] is  *)
(* kept as its host, its path segments and whether ".git" ends it; the     *)
(* substring tests of the code are made token by token (no pattern of the  *)
(* code straddles two tokens of these URLs).                               *)

Url(host, path, dotgit) == [host |-> host, path |-> path, dotgit |-> dotgit]

Urls ==
    { Url("github.com",      << "owner", "repo" >>,           FALSE),
      Url("GitHub.com",      << "owner", "repo" >>,           TRUE),
      Url("github.com",      << "owner" >>,                   FALSE),
      Url("gitlab.com",      << "group", "repo" >>,           FALSE),
      Url("bitbucket.org",   << "team", "repo" >>,            FALSE),
      Url("example.com",     << "owner", "repo" >>,           TRUE),
      Url("example.com",     << "owner", "repo" >>,           FALSE),
      Url("git.example.com", << "owner", "repo" >>,           FALSE),
      Url("my.gitea.io",     << "owner", "repo" >>,           FALSE),
      Url("example.com",     << "owner", "proj.github.io" >>, FALSE),
      Url("example.com",     << "github.com", "repo" >>,      FALSE) }

\* no URL: None
NoUrl == Url(NoValue, << >>, FALSE)

UrlTokens(url) ==
    << url.host >> \o url.path \o (IF url.dotgit THEN << ".git" >> ELSE << >>)

\* the patterns of the code that are substrings of a token
PatternsIn(token) ==
    CASE token = "github.com"     -> {"github.com"}
      [] token = "gitlab.com"     -> {"gitlab.com"}
      [] token = "bitbucket.org"  -> {"bitbucket.org"}
      [] token = ".git"           -> {".git"}
      [] token = "my.gitea.io"    -> {".git"}
      [] token = "proj.github.io" -> {".git"}
      [] OTHER                    -> {}

\* pattern in url
Contains(url, pattern) ==
    \E i \in 1..Len(UrlTokens(url)) : pattern \in PatternsIn(UrlTokens(url)[i])

\* pattern in url.lower()
ContainsLower(url, pattern) ==
    \E i \in 1..Len(UrlTokens(url)) : pattern \in PatternsIn(Lower(UrlTokens(url)[i]))

valid_patterns == {"github.com", "gitlab.com", "bitbucket.org", ".git"}

\* a variant that lets every URL pass
AcceptEveryUrl(url) == TRUE

\* _is_valid_git_url
IsValidGitUrl(url) ==
    \E pattern \in valid_patterns : ContainsLower(url, pattern)

\* _extract_repo_name: the last segment of the path, ".git" taken off
ExtractRepoName(url) ==
    IF url.path = << >> THEN "" ELSE url.path[Len(url.path)]

\* _detect_platform
DetectPlatform(url) ==
    IF ContainsLower(url, "github.com") THEN "github"
    ELSE IF ContainsLower(url, "gitlab.com") THEN "gitlab"
    ELSE "unknown"

\* _add_auth_to_url: the URL with the credential spliced in behind https://
AddAuthToUrl(url, pat) ==
    IF Contains(url, "github.com") THEN [url |-> url, userinfo |-> << pat >>]
    ELSE IF Contains(url, "gitlab.com") THEN [url |-> url, userinfo |-> << "oauth2", pat >>]
    ELSE [url |-> url, userinfo |-> << pat >>]

-----------------------------------------------------------------------------
(* GitOperationsAgent.clone_repository.                                    *)

\* str(self.base_clone_dir / repo_name)
BasePath(repo_name) == << "ai_codescan_repos", repo_name >>

ExplicitPath == << "work", "checkout" >>

\* no path: None
NoPath == << >>

Paths == { BasePath(ExtractRepoName(u)) : u \in Urls } \cup { ExplicitPath }

\* what lies at a path: nothing, or a directory whose content stems from
\* before the run (call 0) or from the clone of a call
Absent == [kind |-> "absent", call |-> 0]

Preexisting == [kind |-> "content", call |-> 0]

NoCall == [repo_url |-> NoUrl, local_path |-> NoPath, branch |-> NoValue,
           pat |-> NoValue]

NoClone == [attempted |-> FALSE]

NoResult == [kind |-> NoValue]

GoInit ==
    /\ go_pc = "idle"
    /\ go_call = NoCall
    /\ go_path = NoPath
    /\ go_fs \in [Paths -> {Absent, Preexisting}]
    /\ go_fs0 = go_fs
    /\ go_clone = NoClone
    /\ go_result = NoResult
    /\ go_calls = 0

\* a caller calls clone_repository(repo_url, local_path, branch=..., pat=...)
CallCloneRepository ==
    /\ go_pc = "idle"
    /\ go_calls < MaxCalls
    /\ \E u \in Urls, lp \in {NoPath, ExplicitPath},
          b \in {NoValue, "dev"}, t \in {NoValue, "token"} :
          go_call' = [repo_url |-> u, local_path |-> lp, branch |-> b, pat |-> t]
    /\ go_pc' = "validate"
    /\ go_calls' = go_calls + 1
    /\ go_fs0' = go_fs
    /\ go_path' = NoPath
    /\ go_clone' = NoClone
    /\ go_result' = NoResult
    /\ UNCHANGED << go_fs, go_others >>

\* lines 181-185: an invalid URL raises ValueError
RejectUrl ==
    /\ go_pc = "validate"
    /\ ~IsValidGitUrl(go_call.repo_url)
    /\ go_result' = [kind |-> "ValueError"]
    /\ go_pc' = "raised"
    /\ UNCHANGED << go_call, go_path, go_fs, go_fs0, go_clone, go_calls, go_others >>

\* shutil.rmtree(local_path) when os.path.exists(local_path)
RemoveTree(fs, path) == [fs EXCEPT ![path] = Absent]

\* a variant that leaves the directory
KeepTree(fs, path) == fs

\* lines 196-199: clean the existing directory
CleanExisting(fs, path) == IF fs[path] # Absent THEN RemoveTree(fs, path) ELSE fs

\* lines 187-199: a valid URL; the local path is the one given or is derived
\* from the URL, and a directory that exists there is removed
PreparePath ==
    /\ go_pc = "validate"
    /\ IsValidGitUrl(go_call.repo_url)
    /\ LET local_path == IF go_call.local_path = NoPath
                         THEN BasePath(ExtractRepoName(go_call.repo_url))
                         ELSE go_call.local_path
       IN  /\ go_path' = local_path
           /\ go_fs' = CleanExisting(go_fs, local_path)
    /\ go_pc' = "clone"
    /\ UNCHANGED << go_call, go_fs0, go_clone, go_result, go_calls, go_others >>

\* the arguments Repo.clone_from is called with (lines 203-229)
CloneArguments(outcome) ==
    [attempted |-> TRUE,
     outcome |-> outcome,
     url |-> IF go_call.pat # NoValue THEN AddAuthToUrl(go_call.repo_url, go_call.pat)
             ELSE [url |-> go_call.repo_url, userinfo |-> << >>],
     to_path |-> go_path,
     depth |-> 1,
     single_branch |-> TRUE,
     branch |-> go_call.branch]

\* Repo.clone_from succeeds: the checkout lies at local_path
CloneSucceeds ==
    /\ go_pc = "clone"
    /\ go_fs[go_path] = Absent
    /\ go_clone' = CloneArguments("cloned")
    /\ go_fs' = [go_fs EXCEPT ![go_path] = [kind |-> "content", call |-> go_calls]]
    /\ go_pc' = "extract"
    /\ UNCHANGED << go_call, go_path, go_fs0, go_result, go_calls, go_others >>

\* Repo.clone_from raises GitCommandError (network, authentication, no such
\* repository, or a directory that is in the way); git may or may not leave
\* a partly written directory behind
CloneFails ==
    /\ go_pc = "clone"
    /\ \E left \in {Absent, [kind |-> "partial", call |-> go_calls]} :
          /\ go_clone' = CloneArguments(IF go_fs[go_path] = Absent THEN left.kind
                                        ELSE "refused")
          /\ go_fs' = IF go_fs[go_path] = Absent
                      THEN [go_fs EXCEPT ![go_path] = left]
                      ELSE go_fs
    /\ go_pc' = "except_git"
    /\ UNCHANGED << go_call, go_path, go_fs0, go_result, go_calls, go_others >>

\* _extract_repository_info returns the RepositoryInfo (line 235)
ExtractSucceeds ==
    /\ go_pc = "extract"
    /\ go_result' = [kind |-> "RepositoryInfo", url |-> go_call.repo_url,
                     local_path |-> go_path]
    /\ go_pc' = "returned"
    /\ UNCHANGED << go_call, go_path, go_fs, go_fs0, go_clone, go_calls, go_others >>

\* _extract_repository_info raises (an empty repository has no head commit)
ExtractFails ==
    /\ go_pc = "extract"
    /\ go_pc' = "except_other"
    /\ UNCHANGED << go_call, go_path, go_fs, go_fs0, go_clone, go_result, go_calls, go_others >>

\* lines 257-260: the handler of GitCommandError
CleanupAfterGitError(fs, path) == IF fs[path] # Absent THEN RemoveTree(fs, path) ELSE fs

\* lines 269-270: the handler of every other exception
CleanupAfterError(fs, path) == IF fs[path] # Absent THEN RemoveTree(fs, path) ELSE fs

\* lines 250-261: except GitCommandError
HandleGitCommandError ==
    /\ go_pc = "except_git"
    /\ go_fs' = CleanupAfterGitError(go_fs, go_path)
    /\ go_result' = [kind |-> "GitCommandError"]
    /\ go_pc' = "raised"
    /\ UNCHANGED << go_call, go_path, go_fs0, go_clone, go_calls, go_others >>

\* lines 262-271: except Exception
HandleException ==
    /\ go_pc = "except_other"
    /\ go_fs' = CleanupAfterError(go_fs, go_path)
    /\ go_result' = [kind |-> "Exception"]
    /\ go_pc' = "raised"
    /\ UNCHANGED << go_call, go_path, go_fs0, go_clone, go_calls, go_others >>

\* the result or the exception reaches the caller
FinishClone ==
    /\ go_pc \in {"returned", "raised"}
    /\ go_pc' = "idle"
    /\ UNCHANGED << go_call, go_path, go_fs, go_fs0, go_clone, go_result, go_calls, go_others >>

\* cleanup_repository(local_path): the directory, if there is one, is
\* removed and True is returned
CleanupRepository ==
    /\ go_pc = "idle"
    /\ go_calls > 0
    /\ \E local_path \in Paths :
          go_fs' = IF go_fs[local_path] # Absent
                   THEN RemoveTree(go_fs, local_path)
                   ELSE go_fs
    /\ go_result' = [kind |-> "True"]
    /\ UNCHANGED << go_pc, go_call, go_path, go_fs0, go_clone, go_calls, go_others >>

GoNext ==
    \/ CallCloneRepository
    \/ RejectUrl
    \/ PreparePath
    \/ CloneSucceeds
    \/ CloneFails
    \/ ExtractSucceeds
    \/ ExtractFails
    \/ HandleGitCommandError
    \/ HandleException
    \/ FinishClone
    \/ CleanupRepository

-----------------------------------------------------------------------------
(* GitOperationsAgent.get_pr_details.                                      *)

\* the module globals GITHUB_AVAILABLE and GITLAB_AVAILABLE are set together
\* by one import block
GITHUB_AVAILABLE == api_available

GITLAB_AVAILABLE == api_available

\* the pr_id arguments: int(pr_id) of each, or a ValueError
PrIds == {"7", "007", "abc"}

NotAnInt == -1

IntOf(pr_id) ==
    CASE pr_id = "7"   -> 7
      [] pr_id = "007" -> 7
      [] OTHER         -> NotAnInt

\* str(number)
StrOf(number) == IF number = 7 THEN "7" ELSE NoValue

\* _parse_github_url: owner and repository, or a ValueError
ParseGithubUrl(repo_url) ==
    IF Len(repo_url.path) >= 2
    THEN [ok |-> TRUE, owner |-> repo_url.path[1], repo_name |-> repo_url.path[2]]
    ELSE [ok |-> FALSE, owner |-> NoValue, repo_name |-> NoValue]

\* _parse_gitlab_url: the path with ".git" taken off its end
ParseGitlabUrl(repo_url) == repo_url.path

File(filename, status) == [filename |-> filename, status |-> status]

\* the pull requests a platform may hold under a number
RemoteFiles ==
    { << >>,
      << File("a.py", "added"), File("b.py", "modified"), File("c.py", "removed") >>,
      << File("d.py", "renamed") >> }

RemotePulls(number) ==
    { [number |-> number, title |-> "Fix", files |-> fs, diff |-> d,
       additions |-> Len(fs), deletions |-> 0] :
         fs \in RemoteFiles, d \in {"", "diff --git"} }

\* nothing fetched yet; failed holds the steps of the API path that raised
NoPull == [failed |-> {}]

NoPrCall == [repo_url |-> NoUrl, pr_id |-> NoValue, pat |-> NoValue]

Filenames(files, statuses) ==
    LET kept == SelectSeq(files, LAMBDA f : f.status \in statuses)
    IN  [i \in 1..Len(kept) |-> kept[i].filename]

AllStatuses == {"added", "modified", "removed", "renamed"}

PrInit ==
    /\ pr_pc = "idle"
    /\ pr_call = NoPrCall
    /\ pr_pull = NoPull
    /\ pr_result = NoResult
    /\ api_available \in BOOLEAN

\* a caller calls get_pr_details(repo_url, pr_id, pat); None stands for a
\* repo_url that is no string
CallGetPrDetails ==
    /\ pr_pc = "idle"
    /\ \E u \in Urls \cup {NoUrl}, id \in PrIds, t \in {NoValue, "token"} :
          pr_call' = [repo_url |-> u, pr_id |-> id, pat |-> t]
    /\ pr_pc' = "detect"
    /\ pr_pull' = NoPull
    /\ pr_result' = NoResult
    /\ UNCHANGED << api_available, pr_others >>

\* lines 585-594: the platform decides the fetcher
DispatchPlatform ==
    /\ pr_pc = "detect"
    /\ pr_call.repo_url # NoUrl
    /\ LET platform == DetectPlatform(pr_call.repo_url)
       IN  pr_pc' = IF platform = "github" THEN "github"
                    ELSE IF platform = "gitlab" THEN "gitlab"
                    ELSE "git"
    /\ UNCHANGED << pr_call, pr_pull, pr_result, api_available, pr_others >>

\* lines 596-603: an exception of the dispatch is logged and raised again
\* (repo_url.lower() of a value that is no string)
DispatchRaises ==
    /\ pr_pc = "detect"
    /\ pr_call.repo_url = NoUrl
    /\ pr_result' = [kind |-> "AttributeError"]
    /\ pr_pc' = "raised"
    /\ UNCHANGED << pr_call, pr_pull, api_available, pr_others >>

\* lines 613-618 and 702-707: without the API libraries, the fallback
ApiUnavailable ==
    /\ pr_pc \in {"github", "gitlab"}
    /\ IF pr_pc = "github" THEN ~GITHUB_AVAILABLE ELSE ~GITLAB_AVAILABLE
    /\ pr_pc' = "git"
    /\ UNCHANGED << pr_call, pr_pull, pr_result, api_available, pr_others >>

\* lines 621-627: the pull request is fetched from GitHub
GithubGetPull ==
    /\ pr_pc = "github"
    /\ GITHUB_AVAILABLE
    /\ ParseGithubUrl(pr_call.repo_url).ok
    /\ IntOf(pr_call.pr_id) # NotAnInt
    /\ \E pr \in RemotePulls(IntOf(pr_call.pr_id)) :
          pr_pull' = [pr |-> pr, diff_text |-> NoValue, files |-> NoValue,
                      failed |-> {}]
    /\ pr_pc' = "github_diff"
    /\ UNCHANGED << pr_call, pr_result, api_available, pr_others >>

\* lines 621-627 raise: the URL has no owner and repository, pr_id is no
\* number, or the API call fails (network, credentials, no such pull request)
GithubGetPullFails ==
    /\ pr_pc = "github"
    /\ GITHUB_AVAILABLE
    /\ pr_pull' = [failed |-> {"lookup"}]
    /\ pr_pc' = "github_except"
    /\ UNCHANGED << pr_call, pr_result, api_available, pr_others >>

\* _fetch_pr_diff_github: the diff, or the text of the error
FetchPrDiffGithub ==
    /\ pr_pc = "github_diff"
    /\ \E ok \in BOOLEAN :
          pr_pull' = [pr_pull EXCEPT
                         !.diff_text = IF ok THEN pr_pull.pr.diff
                                       ELSE "Error fetching diff: e",
                         !.failed = IF ok THEN @ ELSE @ \cup {"diff"}]
    /\ pr_pc' = "github_files"
    /\ UNCHANGED << pr_call, pr_result, api_available, pr_others >>

\* _parse_pr_files: the file names by status, or four empty lists
ParsePrFiles ==
    /\ pr_pc = "github_files"
    /\ \E ok \in BOOLEAN :
          pr_pull' = [pr_pull EXCEPT !.files =
                         IF ok
                         THEN [changed_files  |-> Filenames(pr_pull.pr.files, AllStatuses),
                               files_added    |-> Filenames(pr_pull.pr.files, {"added"}),
                               files_modified |-> Filenames(pr_pull.pr.files, {"modified"}),
                               files_deleted  |-> Filenames(pr_pull.pr.files, {"removed"})]
                         ELSE [changed_files |-> << >>, files_added |-> << >>,
                               files_modified |-> << >>, files_deleted |-> << >>],
                      !.failed = IF ok THEN @ ELSE @ \cup {"files"}]
    /\ pr_pc' = "github_info"
    /\ UNCHANGED << pr_call, pr_result, api_available, pr_others >>

\* lines 641-681: the PullRequestInfo of a GitHub pull request
GithubInfo(pull) ==
    [kind |-> "PullRequestInfo",
     pr_id |-> StrOf(pull.pr.number),
     title |-> << pull.pr.title >>,
     diff_text |-> pull.diff_text,
     changed_files |-> pull.files.changed_files,
     files_added |-> pull.files.files_added,
     files_modified |-> pull.files.files_modified,
     files_deleted |-> pull.files.files_deleted,
     additions |-> pull.pr.additions,
     deletions |-> pull.pr.deletions,
     changed_lines |-> pull.pr.additions + pull.pr.deletions,
     platform |-> "github",
     web_url |-> << "html_url", pull.pr.number >>,
     metadata |-> [commits |-> 1]]

GithubReturnInfo ==
    /\ pr_pc = "github_info"
    /\ pr_result' = GithubInfo(pr_pull)
    /\ pr_pc' = "returned"
    /\ UNCHANGED << pr_call, pr_pull, api_available, pr_others >>

\* building the PullRequestInfo raises (pr.get_reviews() is one more API
\* call; pr.user may be None)
GithubInfoFails ==
    /\ pr_pc = "github_info"
    /\ pr_pull' = [pr_pull EXCEPT !.failed = @ \cup {"info"}]
    /\ pr_pc' = "github_except"
    /\ UNCHANGED << pr_call, pr_result, api_available, pr_others >>

\* lines 685-692: every exception of the GitHub path leads to the fallback
GithubExcept ==
    /\ pr_pc = "github_except"
    /\ pr_pc' = "git"
    /\ UNCHANGED << pr_call, pr_pull, pr_result, api_available, pr_others >>

\* lines 726-764: the PullRequestInfo of a GitLab merge request
GitlabInfo(mr) ==
    [kind |-> "PullRequestInfo",
     pr_id |-> StrOf(mr.number),
     title |-> << mr.title >>,
     diff_text |-> << "str", mr.files >>,
     changed_files |-> mr.files,
     files_added |-> << >>,
     files_modified |-> << >>,
     files_deleted |-> << >>,
     additions |-> 0,
     deletions |-> 0,
     changed_lines |-> 0,
     platform |-> "gitlab",
     web_url |-> << "web_url", mr.number >>,
     metadata |-> [work_in_progress |-> FALSE]]

\* lines 710-766: the merge request is fetched from GitLab and returned
GitlabReturnInfo ==
    /\ pr_pc = "gitlab"
    /\ GITLAB_AVAILABLE
    /\ IntOf(pr_call.pr_id) # NotAnInt
    /\ \E mr \in RemotePulls(IntOf(pr_call.pr_id)) :
          /\ pr_pull' = [pr |-> mr, diff_text |-> NoValue, files |-> NoValue,
                         failed |-> {}]
          /\ pr_result' = GitlabInfo(mr)
    /\ pr_pc' = "returned"
    /\ UNCHANGED << pr_call, api_available, pr_others >>

\* lines 768-775: every exception of the GitLab path leads to the fallback
GitlabExcept ==
    /\ pr_pc = "gitlab"
    /\ GITLAB_AVAILABLE
    /\ pr_pull' = [failed |-> {"merge_request"}]
    /\ pr_pc' = "git"
    /\ UNCHANGED << pr_call, pr_result, api_available, pr_others >>

\* a fallback result that does not say what it is
UnmarkedFallbackInfo(repo_url, pr_id) ==
    [kind |-> "PullRequestInfo", pr_id |-> pr_id,
     title |-> << "Pull Request #", pr_id >>,
     diff_text |-> "Diff not available via Git fallback",
     changed_files |-> << >>, files_added |-> << >>,
     files_modified |-> << >>, files_deleted |-> << >>,
     additions |-> 0, deletions |-> 0, changed_lines |-> 0,
     platform |-> "git", web_url |-> repo_url,
     metadata |-> [fallback |-> FALSE]]

\* a fallback result that names a changed file
FallbackInfoWithFile(repo_url, pr_id) ==
    [UnmarkedFallbackInfo(repo_url, pr_id) EXCEPT
        !.platform = "git_fallback",
        !.metadata = [fallback |-> TRUE],
        !.changed_files = << "a.py" >>,
        !.changed_lines = 1]

\* lines 796-828: the PullRequestInfo of the fallback
FallbackInfo(repo_url, pr_id) ==
    [kind |-> "PullRequestInfo",
     pr_id |-> pr_id,
     title |-> << "Pull Request #", pr_id >>,
     diff_text |-> "Diff not available via Git fallback",
     changed_files |-> << >>,
     files_added |-> << >>,
     files_modified |-> << >>,
     files_deleted |-> << >>,
     additions |-> 0,
     deletions |-> 0,
     changed_lines |-> 0,
     platform |-> "git_fallback",
     web_url |-> repo_url,
     metadata |-> [fallback |-> TRUE]]

\* _fetch_git_pr
FetchGitPr ==
    /\ pr_pc = "git"
    /\ pr_result' = FallbackInfo(pr_call.repo_url, pr_call.pr_id)
    /\ pr_pc' = "returned"
    /\ UNCHANGED << pr_call, pr_pull, api_available, pr_others >>

\* the result or the exception reaches the caller
FinishGetPrDetails ==
    /\ pr_pc \in {"returned", "raised"}
    /\ pr_pc' = "idle"
    /\ UNCHANGED << pr_call, pr_pull, pr_result, api_available, pr_others >>

PrNext ==
    \/ CallGetPrDetails
    \/ DispatchPlatform
    \/ DispatchRaises
    \/ ApiUnavailable
    \/ GithubGetPull
    \/ GithubGetPullFails
    \/ FetchPrDiffGithub
    \/ ParsePrFiles
    \/ GithubReturnInfo
    \/ GithubInfoFails
    \/ GithubExcept
    \/ GitlabReturnInfo
    \/ GitlabExcept
    \/ FetchGitPr
    \/ FinishGetPrDetails

-----------------------------------------------------------------------------
(* PATHandlerAgent: the credential vault.                                  *)
(*                                                                         *)
(* A token is kept by what the code looks at: the characters it starts    *)
(* with, its length, and whether the characters after the prefix are      *)
(* letters and digits ("alnum"), white space ("space") or something else. *)
(* secrets.token_hex(16) is taken to yield a salt not drawn before and    *)
(* SHA-256 to have no collisions: a hash is kept as what was hashed.      *)

Token(prefix, len, body) == [prefix |-> prefix, len |-> len, body |-> body]

\* None, where a token is expected
NoToken == Token(NoValue, 0, NoValue)

EmptyToken == Token("", 0, "alnum")

BlankToken == Token("", 3, "space")

GithubToken == Token("ghp_", 44, "alnum")

GenericToken == Token("", 20, "alnum")

\* the arguments callers give store_pat
StoreCall(platform, username, token, session_id) ==
    [platform |-> platform, username |-> username, token |-> token,
     session_id |-> session_id]

StoreCalls ==
    { StoreCall("GitHub", "alice", GithubToken, "s1"),
      StoreCall("GitHub", "alice", GithubToken, "s2"),
      StoreCall("gitlab", "bob", GenericToken, "s1"),
      StoreCall("gitlab", "bob", EmptyToken, "s1"),
      StoreCall("GitHub", "alice", BlankToken, "s2") }

\* the tokens callers validate
TokenPrefixes == {"", "ghp_", "gho_", "ghu_", "ghs_", "ghr_", "glpat-", "ghx_"}

TokenLengths == {5, 19, 20, 31, 32, 39, 40, 44}

\* len(prefix)
PrefixLen(prefix) ==
    IF prefix = "" THEN 0 ELSE IF prefix = "glpat-" THEN 6 ELSE 4

ValidateTokens ==
    { t \in { Token(p, n, b) : p \in TokenPrefixes, n \in TokenLengths,
                                b \in {"alnum", "other"} } :
         t.len >= PrefixLen(t.prefix) }

PlatformNames == {"github", "GitHub", "gitlab", "GITLAB", "bitbucket", "gitea"}

AllInputs == { [platform |-> p, token |-> t] : p \in PlatformNames, t \in ValidateTokens }

FewInputs ==
    { [platform |-> "GitHub", token |-> GithubToken],
      [platform |-> "gitea", token |-> Token("", 5, "alnum")] }

\* len(token)
TokenLen(token) == token.len

\* token.startswith(prefix)
StartsWith(token, prefix) == prefix # "" /\ token.prefix = prefix

\* token.isalnum()
IsAlnum(token) == token.len > 0 /\ token.prefix = "" /\ token.body = "alnum"

\* not token or not token.strip()
IsBlank(token) == token.len = 0 \/ (token.prefix = "" /\ token.body = "space")

\* self.platform_patterns / validation_rules
validation_rules ==
    << [platform |-> "github",
        prefixes |-> {"ghp_", "gho_", "ghu_", "ghs_", "ghr_"}, min_length |-> 40],
       [platform |-> "gitlab", prefixes |-> {"glpat-"}, min_length |-> 20],
       [platform |-> "bitbucket", prefixes |-> {}, min_length |-> 32] >>

RulesFor(platform) ==
    { validation_rules[i] : i \in { j \in 1..Len(validation_rules) :
                                      validation_rules[j].platform = platform } }

\* a variant that forgets the prefixes
ValidFormatByLength(platform, token) ==
    IF RulesFor(Lower(platform)) = {}
    THEN TokenLen(token) >= 20 /\ IsAlnum(token)
    ELSE \A rules \in RulesFor(Lower(platform)) : TokenLen(token) >= rules.min_length

\* validate_pat_format
ValidFormat(platform, token) ==
    IF RulesFor(Lower(platform)) = {}
    THEN TokenLen(token) >= 20 /\ IsAlnum(token)
    ELSE \A rules \in RulesFor(Lower(platform)) :
            /\ ~(TokenLen(token) < rules.min_length)
            /\ rules.prefixes # {} =>
                  \E prefix \in rules.prefixes : StartsWith(token, prefix)

\* a variant without the salt
CreateTokenHashUnsalted(token, session_id, salt) ==
    [token |-> token, session_id |-> session_id, salt |-> 0]

\* _create_token_hash: the SHA-256 of f"{token}_{session_id}_{salt}"
CreateTokenHash(token, session_id, salt) ==
    [token |-> token, session_id |-> session_id, salt |-> salt]

\* the hash of nothing stored
UnknownHash == CreateTokenHash(NoToken, NoValue, 0)

\* token_hash[:8] + '...'
HashPrefix(token_hash) == [first8 |-> token_hash.salt]

\* self.cipher.encrypt(token.encode())
Encrypt(key, token) == [kind |-> "fernet", key |-> key, plain |-> token]

\* self.cipher.decrypt(encrypted_token).decode(), or InvalidToken raised
Decrypt(key, encrypted_token) ==
    IF encrypted_token.kind = "fernet" /\ encrypted_token.key = key
    THEN [ok |-> TRUE, plain |-> encrypted_token.plain]
    ELSE [ok |-> FALSE, plain |-> NoToken]

\* PATInfo.last_used of an entry never retrieved: None
NeverUsed == 0

\* the entry of a hash in stored_pats, as a set of none or one
EntriesOf(stored, token_hash) ==
    { stored[i] : i \in { j \in 1..Len(stored) : stored[j].token_hash = token_hash } }

StoredHashes(stored) == { stored[i].token_hash : i \in 1..Len(stored) }

\* a variant in which the vault holds one entry at most
PutOnlyEntry(stored, pat_info) == << pat_info >>

\* stored_pats[token_hash] = pat_info: a dict keeps the place of a key it has
PutEntry(stored, pat_info) ==
    IF pat_info.token_hash \in StoredHashes(stored)
    THEN [i \in 1..Len(stored) |->
             IF stored[i].token_hash = pat_info.token_hash THEN pat_info ELSE stored[i]]
    ELSE Append(stored, pat_info)

\* a variant that stamps every entry
StampEveryEntry(stored, token_hash, timestamp) ==
    [i \in 1..Len(stored) |-> [stored[i] EXCEPT !.last_used = timestamp]]

\* pat_info.last_used = timestamp
StampEntry(stored, token_hash, timestamp) ==
    [i \in 1..Len(stored) |->
        IF stored[i].token_hash = token_hash
        THEN [stored[i] EXCEPT !.last_used = timestamp]
        ELSE stored[i]]

\* a variant that also hands out the tokens
StoredPatInfoWithTokens(key, stored) ==
    [i \in 1..Len(stored) |->
        [platform |-> stored[i].platform, username |-> stored[i].username,
         token_hash |-> HashPrefix(stored[i].token_hash),
         created_at |-> stored[i].created_at, last_used |-> stored[i].last_used,
         token |-> Decrypt(key, stored[i].encrypted_token).plain]]

\* get_stored_pat_info: one dictionary per entry
StoredPatInfo(key, stored) ==
    [i \in 1..Len(stored) |->
        [platform |-> stored[i].platform,
         username |-> stored[i].username,
         token_hash |-> HashPrefix(stored[i].token_hash),
         created_at |-> stored[i].created_at,
         last_used |-> stored[i].last_used]]

\* a piece of a log line: fixed text or a formatted string argument
Text(string) == [text |-> string]

NoOutput == [op |-> NoValue]

PvInit ==
    /\ pv_key = "session_key"
    /\ pv_stored = << >>
    /\ pv_issued = << >>
    /\ pv_now = 1
    /\ pv_out = NoOutput

\* secrets.token_hex(16): a salt that was not drawn before
FreshSalt == Len(pv_issued) + 1

\* the (platform, token) pairs callers validate
InputsOf(inputs) == IF inputs = "all" THEN AllInputs ELSE FewInputs

\* one call of store_pat(platform, username, token, session_id)
StorePat ==
    /\ \E call \in StoreCalls :
          LET platform == call.platform
              username == call.username
              token == call.token
              session_id == call.session_id
          IN
          IF IsBlank(token)
          THEN /\ pv_out' = [op |-> "store_pat", raised |-> "ValueError",
                             log |-> << >>]
               /\ UNCHANGED << pv_stored, pv_issued, pv_now >>
          ELSE /\ pv_now < MaxClock
               /\ \E salt \in {FreshSalt} :
                     LET token_hash == CreateTokenHash(token, session_id, salt)
                         pat_info == [platform |-> Lower(platform),
                                      username |-> username,
                                      token_hash |-> token_hash,
                                      encrypted_token |-> Encrypt(pv_key, token),
                                      created_at |-> pv_now,
                                      last_used |-> NeverUsed]
                     IN  /\ pv_stored' = PutEntry(pv_stored, pat_info)
                         /\ pv_issued' = Append(pv_issued,
                                [token_hash |-> token_hash, token |-> token,
                                 session_id |-> session_id, salt |-> salt,
                                 live |-> TRUE])
                         /\ pv_out' = [op |-> "store_pat", raised |-> NoValue,
                                       value |-> token_hash,
                                       log |-> << Text("PAT stored securely for"),
                                                  Text(username), Text(platform),
                                                  HashPrefix(token_hash) >>]
               /\ pv_now' = pv_now + 1
    /\ UNCHANGED << pv_key, pv_inputs, pv_others >>

\* the hashes callers ask for: those store_pat returned, and one it never did
AskedHashes == { pv_issued[i].token_hash : i \in 1..Len(pv_issued) } \cup {UnknownHash}

\* one call of retrieve_pat(token_hash)
RetrievePat ==
    /\ \E token_hash \in AskedHashes :
          IF EntriesOf(pv_stored, token_hash) = {}
          THEN /\ pv_out' = [op |-> "retrieve_pat", raised |-> NoValue,
                             token_hash |-> token_hash, value |-> NoToken,
                             log |-> << Text("PAT not found for hash"),
                                        HashPrefix(token_hash) >>]
               /\ UNCHANGED << pv_stored, pv_now >>
          ELSE \E pat_info \in EntriesOf(pv_stored, token_hash) :
                  LET decrypted == Decrypt(pv_key, pat_info.encrypted_token)
                  IN  IF decrypted.ok
                      THEN /\ pv_now < MaxClock
                           /\ pv_stored' = StampEntry(pv_stored, token_hash, pv_now)
                           /\ pv_now' = pv_now + 1
                           /\ pv_out' = [op |-> "retrieve_pat", raised |-> NoValue,
                                         token_hash |-> token_hash,
                                         value |-> decrypted.plain,
                                         log |-> << Text("PAT retrieved for"),
                                                    Text(pat_info.username),
                                                    Text(pat_info.platform) >>]
                      ELSE /\ pv_out' = [op |-> "retrieve_pat", raised |-> NoValue,
                                         token_hash |-> token_hash, value |-> NoToken,
                                         log |-> << Text("Failed to decrypt PAT") >>]
                           /\ UNCHANGED << pv_stored, pv_now >>
    /\ UNCHANGED << pv_key, pv_issued, pv_inputs, pv_others >>

\* one call of validate_pat_format(platform, token)
ValidatePatFormat ==
    /\ \E input \in InputsOf(pv_inputs) :
          pv_out' = [op |-> "validate_pat_format", raised |-> NoValue,
                     platform |-> input.platform, token |-> input.token,
                     value |-> ValidFormat(input.platform, input.token),
                     log |-> IF ValidFormat(input.platform, input.token)
                             THEN << Text("PAT format validation for"),
                                     Text(Lower(input.platform)), Text("VALID") >>
                             ELSE << >>]
    /\ UNCHANGED << pv_key, pv_stored, pv_issued, pv_now, pv_inputs, pv_others >>

\* one call of get_stored_pat_info()
GetStoredPatInfo ==
    /\ pv_out' = [op |-> "get_stored_pat_info", raised |-> NoValue,
                  value |-> StoredPatInfo(pv_key, pv_stored), log |-> << >>]
    /\ pv_out' # pv_out
    /\ UNCHANGED << pv_key, pv_stored, pv_issued, pv_now, pv_inputs, pv_others >>

\* one call of clear_session_pats()
ClearSessionPats ==
    /\ pv_stored' = << >>
    /\ pv_issued' = [i \in 1..Len(pv_issued) |-> [pv_issued[i] EXCEPT !.live = FALSE]]
    /\ pv_out' = [op |-> "clear_session_pats", raised |-> NoValue,
                  log |-> << Text("Cleared PATs from session"),
                             [count |-> Len(pv_stored)] >>]
    /\ UNCHANGED << pv_key, pv_now, pv_inputs, pv_others >>

\* an encrypted token of the vault is damaged (stored_pats is a plain
\* attribute of the agent)
CorruptEntry ==
    /\ \E i \in 1..Len(pv_stored) :
          /\ pv_stored[i].encrypted_token.kind = "fernet"
          /\ pv_stored' = [pv_stored EXCEPT ![i].encrypted_token.kind = "garbage"]
    /\ UNCHANGED << pv_key, pv_issued, pv_now, pv_out, pv_inputs, pv_others >>

PvApi ==
    \/ StorePat
    \/ RetrievePat
    \/ ValidatePatFormat
    \/ GetStoredPatInfo
    \/ ClearSessionPats

PvNext ==
    \/ StorePat
    \/ RetrievePat
    \/ ValidatePatFormat
    \/ GetStoredPatInfo
    \/ ClearSessionPats
    \/ CorruptEntry

-----------------------------------------------------------------------------
(* DataPreparationAgent: the project context assembler.                    *)
(*                                                                         *)
(* The tree at repo_info.local_path is a set of nodes; a node is a         *)
(* directory or a file and is named by its path below the root.  An       *)
(* Optional field of a result is the set of its values: {} for None.       *)

DirNode(path) == [path |-> path, kind |-> "dir", size |-> 0]

FileNode(path, size) == [path |-> path, kind |-> "file", size |-> size]

\* os.path.getsize raises for this file (a link that leads nowhere)
NoSize == -1

\* the size of an ordinary source file
SmallSize == 120

\* max_file_size_mb = 1.0, in bytes
DefaultMaxFileSizeBytes == 1048576

\* the nodes the trees are made of
ProjectNodes ==
    { DirNode(<< "src" >>),
      DirNode(<< "build" >>),
      DirNode(<< "src", "build" >>),
      DirNode(<< "venv" >>),
      DirNode(<< "venv", "bin" >>),
      DirNode(<< "tests" >>),
      FileNode(<< "main.py" >>, SmallSize),
      FileNode(<< ".env" >>, SmallSize),
      FileNode(<< "LOGO.PNG" >>, SmallSize),
      FileNode(<< "edge.py" >>, DefaultMaxFileSizeBytes),
      FileNode(<< "big.py" >>, DefaultMaxFileSizeBytes + 1),
      FileNode(<< "broken.py" >>, NoSize),
      FileNode(<< "locked.py" >>, SmallSize),
      FileNode(<< "test_app.py" >>, SmallSize),
      FileNode(<< "src", "app.py" >>, SmallSize),
      FileNode(<< "src", "build", "out.py" >>, SmallSize),
      FileNode(<< "venv", "lib.py" >>, SmallSize),
      FileNode(<< "venv", "bin", "python" >>, SmallSize),
      FileNode(<< "tests", "util.py" >>, SmallSize) }

\* os.path.dirname of a path below the root
ParentPath(path) == SubSeq(path, 1, Len(path) - 1)

\* the last component of a path
NodeName(node) == node.path[Len(node.path)]

\* every node but those at the root lies in a directory of the tree
ParentClosed(nodes) ==
    \A n \in nodes :
       Len(n.path) > 1 => DirNode(ParentPath(n.path)) \in nodes

ProjectTrees ==
    { nodes \in SUBSET ProjectNodes :
         Cardinality(nodes) <= MaxNodes /\ ParentClosed(nodes) }

\* self.common_ignore_dirs
common_ignore_dirs ==
    { ".git", ".svn", ".hg", "__pycache__", ".pytest_cache",
      "node_modules", "npm_modules", "venv", "env", ".venv", ".env",
      "build", "dist", "target", "out", ".idea", ".vscode", ".vs",
      "bin", "obj", "debug", "release" }

\* the default of self.exclude_extensions
default_exclude_extensions ==
    { ".pyc", ".pyo", ".class", ".jar", ".war", ".ear",
      ".exe", ".dll", ".so", ".dylib",
      ".png", ".jpg", ".jpeg", ".gif", ".bmp", ".svg", ".ico",
      ".mp3", ".mp4", ".avi", ".mov", ".wav",
      ".zip", ".tar", ".gz", ".bz2", ".rar", ".7z" }

\* DataPreparationAgent(include_test_files, max_file_size_mb,
\* exclude_extensions); the size limit is given in 1/1024 MB, and {} stands
\* for an exclude_extensions of None or []
Config(include_test_files, max_file_size_kb, exclude_extensions) ==
    [include_test_files |-> include_test_files,
     max_file_size_bytes |-> max_file_size_kb * 1024,
     exclude_extensions |-> IF exclude_extensions = {}
                            THEN default_exclude_extensions
                            ELSE exclude_extensions]

DefaultConfig == Config(TRUE, 1024, {})

Configs ==
    { Config(t, kb, x) : t \in BOOLEAN, kb \in {1024, 1}, x \in {{}, {".py"}} }

\* the language profiles handed in: the primary language and the names of
\* the languages found
GivenProfile(primary_language, languages) ==
    [primary_language |-> primary_language, languages |-> languages]

PrimaryLanguages ==
    { "Python", "PYTHON", "JavaScript", "TypeScript", "Java", "Dart",
      "Go", "Unknown" }

DefaultProfile == GivenProfile("Python", << "Python" >>)

\* os.path.basename(repo_info.local_path)
ProjectName == "checkout"

\* the children of a directory of the tree
ChildrenOf(nodes, dir_path) ==
    { n \in nodes : Len(n.path) > 0 /\ ParentPath(n.path) = dir_path }

\* dirs and files of one os.walk step
DirsIn(nodes, dir_path) == { n \in ChildrenOf(nodes, dir_path) : n.kind = "dir" }

FilesIn(nodes, dir_path) == { n \in ChildrenOf(nodes, dir_path) : n.kind = "file" }

\* a variant that prunes nothing
KeepAllDirs(dirs) == dirs

\* dirs[:] = [d for d in dirs if d not in self.common_ignore_dirs]
PruneIgnored(dirs) == { d \in dirs : NodeName(d) \notin common_ignore_dirs }

\* os.walk(path), top down: the directories visited from root on, those
\* left in dirs after the pruning being walked in turn
RECURSIVE WalkFrom(_, _)
WalkFrom(nodes, root) ==
    {root} \cup UNION { WalkFrom(nodes, d.path) :
                            d \in PruneIgnored(DirsIn(nodes, root)) }

\* the largest of a set of depths, 0 for none
MaxOf(depths) ==
    IF depths = {} THEN 0 ELSE CHOOSE d \in depths : \A e \in depths : e <= d

\* ignored_dirs as appended to: how often each name was appended
Appended(dirs) ==
    [name \in { NodeName(d) : d \in dirs } |->
        Cardinality({ d \in dirs : NodeName(d) = name })]

\* a variant that keeps the list as appended to
KeepDuplicates(appended) == appended

\* list(set(ignored_dirs))
ListOfSet(appended) == [name \in DOMAIN appended |-> 1]

\* _analyze_directory_structure; the dirs and files lists of the steps are
\* disjoint, so their lengths add up to the number of nodes listed;
\* common_directories is kept as the set of its names
AnalyzeDirectoryStructure(nodes) ==
    LET visited == WalkFrom(nodes, << >>)
        listed_dirs == UNION { DirsIn(nodes, root) : root \in visited }
        listed_files == UNION { FilesIn(nodes, root) : root \in visited }
        ignored_dirs == Appended({ d \in listed_dirs :
                                      NodeName(d) \in common_ignore_dirs })
    IN  [total_directories |-> Cardinality(listed_dirs),
         total_files |-> Cardinality(listed_files),
         max_depth |-> MaxOf({ Len(root) : root \in visited \ {<< >>} }),
         common_directories |-> { NodeName(d) : d \in listed_dirs },
         ignored_directories |-> ListOfSet(ignored_dirs)]

\* os.path.splitext(filename)[1] on the file names of the trees
SplitExt(filename) ==
    CASE filename \in {"main.py", "edge.py", "big.py", "broken.py",
                       "test_app.py", "app.py", "out.py", "lib.py",
                       "util.py"} -> ".py"
      [] filename = "LOGO.PNG" -> ".PNG"
      [] OTHER -> ""

\* the test_file_patterns that occur in a lower-cased file name of the trees
TestPatternsIn(filename) ==
    CASE filename = "test_app.py" -> {"test_"}
      [] OTHER -> {}

\* _is_test_file: a pattern in the file name, "tests/" in the relative
\* path (a directory whose name ends in tests) or "/test/" in it (a
\* directory test that is not the first component)
IsTestFile(path) ==
    \/ TestPatternsIn(Lower(path[Len(path)])) # {}
    \/ \E i \in 1..(Len(path) - 1) :
          \/ Lower(path[i]) \in {"tests"}
          \/ i > 1 /\ Lower(path[i]) = "test"

\* _is_config_file on the file names of the trees
IsConfigFile(filename) == Lower(filename) \in {".env"}

\* _determine_file_language on the file names of the trees
DetermineFileLanguage(filename, profile) ==
    IF Lower(SplitExt(filename)) = ".py" /\ "Python" \in SeqToSet(profile.languages)
    THEN "Python"
    ELSE "Unknown"

\* a variant that also skips a file of exactly the limit
TooLargeAtLimit(file_size, max_file_size_bytes) == file_size >= max_file_size_bytes

\* file_size > self.max_file_size_bytes
TooLarge(file_size, max_file_size_bytes) == file_size > max_file_size_bytes

\* the body of the loop over filenames: does the file get a FileInfo
Survives(file, config) ==
    /\ ~StartsWithDot(NodeName(file))
    /\ file.size # NoSize
    /\ ~TooLarge(file.size, config.max_file_size_bytes)
    /\ Lower(SplitExt(NodeName(file))) \notin config.exclude_extensions
    /\ ~(IsTestFile(file.path) /\ ~config.include_test_files)

\* _count_file_lines: three lines in every file, 0 when open raises, as
\* it does for locked.py
CountFileLines(file) ==
    IF NodeName(file) = "locked.py" THEN 0 ELSE 3

FileInfoOf(file, profile) ==
    [relative_path |-> file.path,
     size_bytes |-> file.size,
     lines |-> CountFileLines(file),
     language |-> DetermineFileLanguage(NodeName(file), profile),
     is_test_file |-> IsTestFile(file.path),
     is_config_file |-> IsConfigFile(NodeName(file))]

\* a list of the members of a set, in the order of one directory listing
RECURSIVE ListOf(_)
ListOf(set) ==
    IF set = {} THEN << >>
    ELSE LET first == CHOOSE x \in set : TRUE
         IN  << first >> \o ListOf(set \ {first})

\* files.append(file_info) for the files of one os.walk step
RECURSIVE AppendFiles(_, _, _, _)
AppendFiles(files, filenames, config, profile) ==
    IF filenames = << >> THEN files
    ELSE AppendFiles(IF Survives(Head(filenames), config)
                     THEN Append(files, FileInfoOf(Head(filenames), profile))
                     ELSE files,
                     Tail(filenames), config, profile)

\* the os.walk loop of _analyze_files over the directories visited
RECURSIVE AnalyzeVisited(_, _, _, _, _)
AnalyzeVisited(files, roots, nodes, config, profile) ==
    IF roots = << >> THEN files
    ELSE AnalyzeVisited(AppendFiles(files, ListOf(FilesIn(nodes, Head(roots))),
                                    config, profile),
                        Tail(roots), nodes, config, profile)

\* _analyze_files
AnalyzeFiles(nodes, config, profile) ==
    AnalyzeVisited(<< >>, ListOf(WalkFrom(nodes, << >>)), nodes, config, profile)

-----------------------------------------------------------------------------
(* DataPreparationAgent: the manifests at the root of the tree.  A         *)
(* manifest is missing, holds every field the parser reads ("full"),      *)
(* holds none of them ("bare": an empty table, object or document) or     *)
(* cannot be parsed ("malformed").                                        *)

ManifestNames ==
    { "pyproject.toml", "requirements.txt", "package.json", "pom.xml",
      "pubspec.yaml" }

ManifestStates == { "missing", "full", "bare", "malformed" }

Manifests == [ManifestNames -> ManifestStates]

NoManifests == [m \in ManifestNames |-> "missing"]

\* a dictionary entry
Item(key, value) == [key |-> key, value |-> value]

\* dict[key] = value
SetItem(dict, key, value) == { e \in dict : e.key # key } \cup { Item(key, value) }

\* ProjectMetadata(name=os.path.basename(path), dependencies={})
NewMetadata(name) ==
    [name |-> {name}, version |-> {}, description |-> {}, author |-> {},
     license |-> {}, dependencies |-> {}, scripts |-> {}, keywords |-> {}]

\* _extract_python_metadata: pyproject.toml, then requirements.txt
\* (setup.py is opened and nothing is taken from it)
ExtractPythonMetadata(manifests, metadata) ==
    LET after_pyproject ==
            CASE manifests["pyproject.toml"] = "full" ->
                    [metadata EXCEPT !.name = {"pyproject-name"},
                                     !.version = {"1.0.0"},
                                     !.description = {"a description"},
                                     !.author = {"Ann, Bob"},
                                     !.license = {"MIT"},
                                     !.keywords = {<< "cli" >>},
                                     !.dependencies =
                                         SetItem(@, "runtime", << "requests" >>)]
              [] manifests["pyproject.toml"] = "bare" ->
                    [metadata EXCEPT !.version = {},
                                     !.description = {},
                                     !.author = {""},
                                     !.license = {},
                                     !.keywords = {<< >>}]
              [] OTHER -> metadata
    IN  CASE manifests["requirements.txt"] = "full" ->
                [after_pyproject EXCEPT !.dependencies =
                                            SetItem(@, "requirements", << "requests" >>)]
          [] manifests["requirements.txt"] = "bare" ->
                [after_pyproject EXCEPT !.dependencies =
                                            SetItem(@, "requirements", << >>)]
          [] OTHER -> after_pyproject

\* _extract_javascript_metadata: package.json
ExtractJavascriptMetadata(manifests, metadata) ==
    CASE manifests["package.json"] = "full" ->
            [metadata EXCEPT !.name = {"package-name"},
                             !.version = {"1.0.0"},
                             !.description = {"a description"},
                             !.author = {"Ann"},
                             !.license = {"MIT"},
                             !.keywords = {<< "cli" >>},
                             !.dependencies =
                                 SetItem(SetItem(@, "dependencies", << "react" >>),
                                         "devDependencies", << "jest" >>),
                             !.scripts = {{ Item("test", "jest") }}]
      [] manifests["package.json"] = "bare" ->
            [metadata EXCEPT !.version = {},
                             !.description = {},
                             !.author = {},
                             !.license = {},
                             !.keywords = {<< >>}]
      [] OTHER -> metadata

\* _extract_java_metadata: pom.xml (build.gradle is opened and nothing is
\* taken from it)
ExtractJavaMetadata(manifests, metadata) ==
    CASE manifests["pom.xml"] = "full" ->
            [metadata EXCEPT !.name = {"artifact"},
                             !.version = {"1.0.0"},
                             !.description = {"a description"},
                             !.dependencies =
                                 SetItem(@, "maven", << "org.junit:junit" >>)]
      [] manifests["pom.xml"] = "bare" ->
            [metadata EXCEPT !.version = {}, !.description = {}]
      [] OTHER -> metadata

\* _extract_dart_metadata: pubspec.yaml
ExtractDartMetadata(manifests, metadata) ==
    CASE manifests["pubspec.yaml"] = "full" ->
            [metadata EXCEPT !.name = {"pubspec_name"},
                             !.version = {"1.0.0"},
                             !.description = {"a description"},
                             !.author = {"Ann"},
                             !.dependencies =
                                 SetItem(SetItem(@, "dependencies", << "http" >>),
                                         "dev_dependencies", << "test" >>)]
      [] manifests["pubspec.yaml"] = "bare" ->
            [metadata EXCEPT !.version = {}, !.description = {}, !.author = {}]
      [] OTHER -> metadata

\* a variant that reads package.json whatever the language
ParserOfAnyLanguage(primary_lang) == "javascript"

\* the if/elif chain on primary_lang: the parser that runs, "none" for none
ParserOf(primary_lang) ==
    IF primary_lang = "python" THEN "python"
    ELSE IF primary_lang \in {"javascript", "typescript"} THEN "javascript"
    ELSE IF primary_lang = "java" THEN "java"
    ELSE IF primary_lang = "dart" THEN "dart"
    ELSE NoValue

\* _extract_project_metadata
ExtractProjectMetadata(manifests, profile) ==
    LET metadata == NewMetadata(ProjectName)
        parser == ParserOf(Lower(profile.primary_language))
    IN  CASE parser = "python" -> ExtractPythonMetadata(manifests, metadata)
          [] parser = "javascript" -> ExtractJavascriptMetadata(manifests, metadata)
          [] parser = "java" -> ExtractJavaMetadata(manifests, metadata)
          [] parser = "dart" -> ExtractDartMetadata(manifests, metadata)
          [] OTHER -> metadata

NoContext == [op |-> NoValue]

DpInit ==
    /\ dp_exists = TRUE
    /\ dp_tree = {}
    /\ dp_config = DefaultConfig
    /\ dp_profile = DefaultProfile
    /\ dp_manifests = NoManifests
    /\ dp_out = NoContext

\* prepare_project_context(repo_info, language_profile) where nothing lies
\* at repo_info.local_path
PrepareRaises ==
    /\ ~dp_exists
    /\ dp_out' = [op |-> "prepare_project_context", raised |-> "FileNotFoundError"]
    /\ UNCHANGED << dp_exists, dp_tree, dp_config, dp_profile, dp_manifests,
                    dp_others >>

\* prepare_project_context(repo_info, language_profile)
PrepareProjectContext ==
    /\ dp_exists
    /\ dp_out' =
          [op |-> "prepare_project_context", raised |-> NoValue,
           project_metadata |-> ExtractProjectMetadata(dp_manifests, dp_profile),
           directory_structure |-> AnalyzeDirectoryStructure(dp_tree),
           files |-> AnalyzeFiles(dp_tree, dp_config, dp_profile),
           preparation_config |->
              [include_test_files |-> dp_config.include_test_files,
               max_file_size_bytes |-> dp_config.max_file_size_bytes,
               exclude_extensions |-> dp_config.exclude_extensions,
               total_files_analyzed |->
                  Len(AnalyzeFiles(dp_tree, dp_config, dp_profile)),
               analysis_scope |-> "full"]]
    /\ UNCHANGED << dp_exists, dp_tree, dp_config, dp_profile, dp_manifests,
                    dp_others >>

DpNext ==
    \/ PrepareRaises
    \/ PrepareProjectContext

-----------------------------------------------------------------------------
(* LanguageIdentifierAgent._analyze_file_extensions file by file, over     *)
(* trees in which a file may fail to be sized or to be read.               *)

\* a file of the tree walked: its directory below the root, its name, and
\* what goes wrong with it: "size" when os.path.getsize raises, "read" when
\* open raises, "none"
ScanFile(dir, stem, ext, trouble) ==
    [dir |-> dir, stem |-> stem, ext |-> ext, trouble |-> trouble]

ScanFileNames ==
    { << "src", "a", ".py" >>, << "src", "b", ".PY" >>, << "src", "c", ".h" >>,
      << "src", "d", ".m" >>, << "", "notes", ".txt" >>, << "", ".env", ".py" >>,
      << "node_modules", "n", ".js" >>, << ".github", "g", ".py" >> }

\* the trees: at most MaxScanFiles files, each with one kind of trouble or none
ScanTrees ==
    { files \in SUBSET { ScanFile(name[1], name[2], name[3], trouble) :
                            name \in ScanFileNames,
                            trouble \in {"none", "size", "read"} } :
        /\ Cardinality(files) <= MaxScanFiles
        /\ \A f, g \in files :
              << f.dir, f.stem, f.ext >> = << g.dir, g.stem, g.ext >> => f = g }

\* _count_lines: three lines in every file, 0 when open raises
CountLines(file) ==
    IF file.trouble = "read" THEN 0 ELSE 3

\* language_stats before the walk
NewLanguageStats ==
    [i \in 1..Len(language_extensions) |->
        [lang |-> language_extensions[i].lang,
         file_count |-> 0, total_lines |-> 0, total_size |-> 0]]

\* the loop over language_extensions, were it without its break
RECURSIVE AttributeFileToEvery(_, _, _)
AttributeFileToEvery(language_stats, file, i) ==
    IF i > Len(language_extensions) THEN language_stats
    ELSE IF Lower(file.ext) \in language_extensions[i].exts /\ file.trouble # "size"
    THEN AttributeFileToEvery(
            [language_stats EXCEPT
                ![i].file_count = @ + 1,
                ![i].total_lines = @ + CountLines(file),
                ![i].total_size = @ + SmallSize],
            file, i + 1)
    ELSE AttributeFileToEvery(language_stats, file, i + 1)

\* the loop over language_extensions from the i-th language on, for one
\* file: the first language whose list holds the extension gets the file,
\* unless os.path.getsize raises, and the loop ends there
RECURSIVE AttributeFile(_, _, _)
AttributeFile(language_stats, file, i) ==
    IF i > Len(language_extensions) THEN language_stats
    ELSE IF Lower(file.ext) \in language_extensions[i].exts
    THEN IF file.trouble = "size" THEN language_stats
         ELSE [language_stats EXCEPT
                  ![i].file_count = @ + 1,
                  ![i].total_lines = @ + CountLines(file),
                  ![i].total_size = @ + SmallSize]
    ELSE AttributeFile(language_stats, file, i + 1)

\* the walk, were a file that cannot be analysed to end it
RECURSIVE ScanUntilFailure(_, _)
ScanUntilFailure(language_stats, files) ==
    IF files = << >> THEN language_stats
    ELSE IF ~Scanned(Head(files)) THEN ScanUntilFailure(language_stats, Tail(files))
    ELSE IF Head(files).trouble # "none" THEN language_stats
    ELSE ScanUntilFailure(AttributeFile(language_stats, Head(files), 1), Tail(files))

\* the os.walk loop over the files in the order they are listed
RECURSIVE ScanFrom(_, _)
ScanFrom(language_stats, files) ==
    IF files = << >> THEN language_stats
    ELSE ScanFrom(IF Scanned(Head(files))
                  THEN AttributeFile(language_stats, Head(files), 1)
                  ELSE language_stats,
                  Tail(files))

\* _analyze_file_extensions: the languages with a file, in table order
AnalyzeFileExtensionsOf(files) ==
    SelectSeq(ScanFrom(NewLanguageStats, ListOf(files)),
              LAMBDA stats : stats.file_count > 0)

ScInit ==
    /\ sc_files = {}
    /\ sc_out = NoContext

\* _analyze_file_extensions(path)
ScanFileExtensions ==
    /\ sc_out' = [op |-> "_analyze_file_extensions", raised |-> NoValue,
                  language_stats |-> AnalyzeFileExtensionsOf(sc_files)]
    /\ UNCHANGED << sc_files, sc_others >>

-----------------------------------------------------------------------------
(* CodeFetcherAgent (code_fetcher.py): clone_repository with its cache     *)
(* cloned_repos, and get_pr_diff.  A name of an owner or a repository is   *)
(* the sequence of its parts between underscores, a line of a diff the     *)
(* sequence of its characters.                                             *)

\* the parts of a URL as urlparse splits it
RepoUrl(scheme, netloc, segments) ==
    [scheme |-> scheme, netloc |-> netloc, segments |-> segments]

\* the URLs handed to the agent: two platforms with the same owner and
\* name, a host in capitals with the .git suffix, names that differ only in
\* where the underscore stands, and the three kinds of invalid URL
RepoUrls ==
    { RepoUrl("https", "github.com", << <<"octo">>, <<"app">> >>),
      RepoUrl("https", "gitlab.com", << <<"octo">>, <<"app">> >>),
      RepoUrl("https", "GitHub.com", << <<"octo">>, <<"app.git">> >>),
      RepoUrl("https", "github.com", << <<"octo", "cat">>, <<"app">> >>),
      RepoUrl("https", "github.com", << <<"octo">>, <<"cat", "app">> >>),
      RepoUrl("http", "github.com", << <<"octo">>, <<"app">> >>),
      RepoUrl("https", "example.com", << <<"octo">>, <<"app">> >>),
      RepoUrl("https", "github.com", << <<"octo">> >>) }

\* str.replace('.git', '') on one part of a name
RemoveDotGit(part) ==
    CASE part = "app.git" -> "app"
      [] OTHER -> part

\* clean_url: the segments of the path without '.git'
CleanSegments(url) ==
    [i \in 1..Len(url.segments) |->
        [j \in 1..Len(url.segments[i]) |-> RemoveDotGit(url.segments[i][j])]]

platform_map ==
    [netloc \in {"github.com", "gitlab.com", "bitbucket.org"} |->
        CASE netloc = "github.com" -> "github"
          [] netloc = "gitlab.com" -> "gitlab"
          [] OTHER -> "bitbucket"]

\* the checks of _parse_repo_url that raise ValueError
InvalidRepoUrl(url) ==
    \/ url.netloc = "" \/ CleanSegments(url) = << >> \/ url.scheme # "https"
    \/ Lower(url.netloc) \notin DOMAIN platform_map
    \/ Len(CleanSegments(url)) < 2

\* _parse_repo_url of a URL that passes its checks
ParseRepoUrl(url) ==
    LET path_parts == CleanSegments(url)
        owner == path_parts[1]
        repo_name == path_parts[2]
    IN  [platform |-> platform_map[Lower(url.netloc)],
         owner |-> owner,
         repo_name |-> repo_name,
         full_name |-> << owner, repo_name >>,
         clone_url |-> [netloc |-> url.netloc, owner |-> owner,
                        repo_name |-> repo_name]]

\* _get_repo_local_path: platform, owner and name joined with underscores
GetRepoLocalPath(repo_info) ==
    << repo_info.platform >> \o repo_info.full_name[1] \o repo_info.full_name[2]

\* the key of cloned_repos, were it to hold the platform too
RepoKeyWithPlatform(repo_info) ==
    << repo_info.platform, repo_info.full_name >>

\* repo_key = repo_info['full_name']
RepoKey(repo_info) ==
    repo_info.full_name

\* a Repo: the remote it was cloned from and its working directory
Repo(origin, working_dir) ==
    [origin |-> origin, working_dir |-> working_dir]

\* cloned_repos is a set of entries [key, repo], one per key
CachedKeys(cloned_repos) ==
    { entry.key : entry \in cloned_repos }

CachedRepo(cloned_repos, key) ==
    (CHOOSE entry \in cloned_repos : entry.key = key).repo

DelRepo(cloned_repos, key) ==
    { entry \in cloned_repos : entry.key # key }

PutRepo(cloned_repos, key, repo) ==
    DelRepo(cloned_repos, key) \cup { [key |-> key, repo |-> repo] }

\* the workspace is the set of the repositories on disk, one per path
PathExists(disk, path) ==
    \E repo \in disk : repo.working_dir = path

RepoAt(disk, path) ==
    CHOOSE repo \in disk : repo.working_dir = path

RmTree(disk, path) ==
    { repo \in disk : repo.working_dir # path }

\* the handlers of clone_repository, were they to let a ValueError pass
ReraisedUnlessValueError(exception) ==
    IF exception = "ValueError" THEN "ValueError" ELSE "GitError"

\* the handlers of clone_repository: GitCommandError,
\* InvalidGitRepositoryError and any other Exception leave as GitError
Reraised(exception) ==
    "GitError"

\* clone_repository(repo_url, force_refresh) on the cache and the workspace
\* given, git_ok telling whether Repo.clone_from succeeds: what it raises,
\* the Repo it returns, and the cache and the workspace it leaves
CloneRepository(repo_url, force_refresh, git_ok, cloned_repos, disk) ==
    IF InvalidRepoUrl(repo_url)
    THEN [raised |-> Reraised("ValueError"), repo |-> {},
          cloned_repos |-> cloned_repos, disk |-> disk]
    ELSE
    LET repo_info == ParseRepoUrl(repo_url)
        local_path == GetRepoLocalPath(repo_info)
        repo_key == RepoKey(repo_info)
        refresh == force_refresh /\ PathExists(disk, local_path)
        disk1 == IF refresh THEN RmTree(disk, local_path) ELSE disk
        cloned1 == IF refresh THEN DelRepo(cloned_repos, repo_key) ELSE cloned_repos
        repo == IF PathExists(disk1, local_path)
                THEN RepoAt(disk1, local_path)
                ELSE Repo(repo_info.clone_url, local_path)
    IN  IF repo_key \in CachedKeys(cloned_repos) /\ ~force_refresh
        THEN [raised |-> NoValue, repo |-> {CachedRepo(cloned_repos, repo_key)},
              cloned_repos |-> cloned_repos, disk |-> disk]
        ELSE IF ~PathExists(disk1, local_path) /\ ~git_ok
        THEN [raised |-> Reraised("GitCommandError"), repo |-> {},
              cloned_repos |-> cloned1, disk |-> disk1]
        ELSE [raised |-> NoValue, repo |-> {repo},
              cloned_repos |-> PutRepo(cloned1, repo_key, repo),
              disk |-> disk1 \cup {repo}]

\* a changed line of a patch: its sign and the line of the file
Change(sign, content) ==
    [sign |-> sign, content |-> content]

Changes ==
    { Change("+", <<"x">>), Change("-", <<"x">>), Change(" ", <<"x">>),
      Change("+", <<"+", "+", "i">>), Change("-", <<"-", "-", " ", "c">>) }

RECURSIVE SeqsUpTo(_, _)
SeqsUpTo(set, n) ==
    IF n = 0 THEN { << >> }
    ELSE SeqsUpTo(set, n - 1) \cup
         { Append(seq, x) : seq \in { s \in SeqsUpTo(set, n - 1) : Len(s) = n - 1 },
                            x \in set }

base_branches == << "main", "master", "develop" >>

\* the remote of a call of get_pr_diff: whether the pull request's ref can
\* be fetched, which of origin's branches resolve, whether the commit of
\* the pull request has a parent, and the lines its patch changes
Remotes ==
    { remote \in [fetch_ok : BOOLEAN, branches : SUBSET SeqToSet(base_branches),
                  has_parent : BOOLEAN, patch : SeqsUpTo(Changes, MaxLines)] :
        remote.patch # << >> =>
            remote.fetch_ok /\ (remote.branches # {} \/ remote.has_parent) }

QuietRemote ==
    [fetch_ok |-> TRUE, branches |-> {"main"}, has_parent |-> TRUE, patch |-> << >>]

\* the loop, were it to take the last of the branches that resolve
RECURSIVE ResolveLastBase(_, _)
ResolveLastBase(i, branches) ==
    IF i > Len(base_branches) THEN [tried |-> << >>, base_commit |-> {}]
    ELSE LET rest == ResolveLastBase(i + 1, branches)
         IN  [tried |-> << base_branches[i] >> \o rest.tried,
              base_commit |-> IF rest.base_commit # {} THEN rest.base_commit
                              ELSE IF base_branches[i] \in branches
                              THEN {base_branches[i]} ELSE {}]

\* the loop over base_branches from the i-th on: the branches tried, and
\* the commit found, if one is
RECURSIVE ResolveBase(_, _)
ResolveBase(i, branches) ==
    IF i > Len(base_branches) THEN [tried |-> << >>, base_commit |-> {}]
    ELSE IF base_branches[i] \in branches
    THEN [tried |-> << base_branches[i] >>, base_commit |-> {base_branches[i]}]
    ELSE LET rest == ResolveBase(i + 1, branches)
         IN  [tried |-> << base_branches[i] >> \o rest.tried,
              base_commit |-> rest.base_commit]

\* str.startswith
LineStartsWith(line, prefix) ==
    /\ Len(line) >= Len(prefix)
    /\ SubSeq(line, 1, Len(prefix)) = prefix

\* diff_text.split('\n'): the hunk header of the one file changed, a line
\* per change, and the empty string after the last newline
DiffLines(patch) ==
    IF patch = << >> THEN << << >> >>
    ELSE << <<"@", "@">> >> \o
         [i \in 1..Len(patch) |-> << patch[i].sign >> \o patch[i].content] \o
         << << >> >>

\* the lines counted, were the test on the first character alone
CountPrefixedAll(lines, sign) ==
    Cardinality({ i \in DOMAIN lines : LineStartsWith(lines[i], << sign >>) })

\* len([l for l in lines if l.startswith(sign) and not l.startswith(sign * 3)])
CountPrefixed(lines, sign) ==
    Cardinality({ i \in DOMAIN lines :
        /\ LineStartsWith(lines[i], << sign >>)
        /\ ~LineStartsWith(lines[i], << sign, sign, sign >>) })

\* result as get_pr_diff sets it up; error is the empty set for None
NewResult(repo_url) ==
    [pr_id |-> 7, repo_url |-> repo_url, diff |-> << >>,
     files_changed |-> {},
     stats |-> [additions |-> 0, deletions |-> 0, files |-> 0],
     commits |-> << >>, error |-> {}]

NoOutcome == [op |-> NoValue]

NoLocals == [tried |-> << >>, base_commit |-> {}]

CfInit ==
    /\ cf_cloned = {}
    /\ cf_disk = {}
    /\ cf_remote = QuietRemote
    /\ cf_calls = 0
    /\ cf_out = NoOutcome

\* clone_repository(repo_url, force_refresh)
CodeFetcherCloneRepository ==
    /\ cf_calls < MaxCalls
    /\ \E repo_url \in RepoUrls, force_refresh \in BOOLEAN, git_ok \in BOOLEAN :
          LET call == CloneRepository(repo_url, force_refresh, git_ok,
                                      cf_cloned, cf_disk)
          IN  /\ cf_cloned' = call.cloned_repos
              /\ cf_disk' = call.disk
              /\ cf_out' = [op |-> "clone_repository", repo_url |-> repo_url,
                            force_refresh |-> force_refresh,
                            raised |-> call.raised, repo |-> call.repo]
    /\ cf_calls' = cf_calls + 1
    /\ UNCHANGED << cf_remote, cf_others >>

\* the body of get_pr_diff's inner try on the remote given: the result it
\* builds, the exception that leaves it, and its locals
FetchPrDiff(result, repo_info, remote) ==
    LET resolved == ResolveBase(1, remote.branches)
        base_commit == IF resolved.base_commit # {} THEN resolved.base_commit
                       ELSE IF remote.has_parent THEN {"parent"} ELSE {}
        locals == [tried |-> resolved.tried, base_commit |-> base_commit]
        lines == DiffLines(remote.patch)
    IN  IF ~remote.fetch_ok
        THEN [result |->
                [result EXCEPT !.error =
                    IF repo_info.platform \in {"gitlab", "bitbucket"}
                    THEN {"PR diff not available (API access required)"}
                    ELSE {"Failed to fetch PR"}],
              raised |-> NoValue, locals |-> NoLocals]
        ELSE IF base_commit = {}
        THEN [result |-> result, raised |-> "GitError", locals |-> locals]
        ELSE [result |->
                [result EXCEPT
                    !.diff = lines,
                    !.files_changed = IF remote.patch = << >> THEN {} ELSE {"app.py"},
                    !.stats = [additions |-> CountPrefixed(lines, "+"),
                               deletions |-> CountPrefixed(lines, "-"),
                               files |-> IF remote.patch = << >> THEN 0 ELSE 1],
                    !.commits = IF remote.patch = << >> THEN << >> ELSE << "c0ffee12" >>],
              raised |-> NoValue, locals |-> locals]

\* get_pr_diff(repo_url, pr_id): every exception ends in result['error']
GetPrDiff ==
    /\ cf_calls < MaxDiffCalls
    /\ \E repo_url \in RepoUrls, git_ok \in BOOLEAN :
          LET result == NewResult(repo_url)
              call == CloneRepository(repo_url, FALSE, git_ok, cf_cloned, cf_disk)
              fetched == FetchPrDiff(result, ParseRepoUrl(repo_url), cf_remote)
          IN  IF InvalidRepoUrl(repo_url)
              THEN /\ cf_out' = [op |-> "get_pr_diff", raised |-> NoValue,
                                 result |-> [result EXCEPT
                                    !.error = {"Error getting PR diff"}],
                                 locals |-> NoLocals]
                   /\ UNCHANGED << cf_cloned, cf_disk >>
              ELSE /\ cf_cloned' = call.cloned_repos
                   /\ cf_disk' = call.disk
                   /\ cf_out' =
                        IF call.raised # NoValue
                        THEN [op |-> "get_pr_diff", raised |-> NoValue,
                              result |-> [result EXCEPT
                                 !.error = {"Error getting PR diff"}],
                              locals |-> NoLocals]
                        ELSE IF fetched.raised # NoValue
                        THEN [op |-> "get_pr_diff", raised |-> NoValue,
                              result |-> [fetched.result EXCEPT
                                 !.error = {"Error getting PR diff"}],
                              locals |-> fetched.locals]
                        ELSE [op |-> "get_pr_diff", raised |-> NoValue,
                              result |-> fetched.result,
                              locals |-> fetched.locals]
    /\ cf_calls' = cf_calls + 1
    /\ UNCHANGED << cf_remote, cf_others >>

-----------------------------------------------------------------------------
(* The orchestrator of the code review agents (orchestrator/agent.py,      *)
(* state_manager.py, subagent_example.py): the callbacks and the tool      *)
(* that read and write the state of the session.  A key that may be        *)
(* missing holds a set, empty when it is.                                  *)

PrLink == "https://github.com/octo/app/pull/7"

RepoLink == "https://github.com/octo/app"

\* the state of the session; its first five keys as before_agent_callback
\* sets them
SessionState(user_task, pr_link, repo_link, status) ==
    [user_task |-> user_task, pr_link |-> pr_link, repo_link |-> repo_link,
     information_collection_status |-> status,
     collected_info |-> [task |-> {}, pr_link |-> {}, repo_link |-> {}],
     pending_confirmation_message |-> {},
     task_progress |-> {},
     analysis_results |-> {}]

NewSession == SessionState("", "", "", "collecting")

\* the states a session may be in when a sub-agent or a tool is called
SessionStates ==
    { SessionState(user_task, pr_link, repo_link, status) :
        user_task \in {"", "Review PR", "Review source code"},
        pr_link \in {"", PrLink}, repo_link \in {"", RepoLink},
        status \in {"collecting", "collected", "confirmed"} }

\* the responses of the agent that after_agent_callback analyses
Responses ==
    { "", "yes",
      "Please review https://github.com/octo/app/pull/7",
      "review the pull request https://github.com/octo/app/pull/7",
      "review the source code of https://github.com/octo/app",
      "review the pull request",
      "review the source code",
      "yes, review the pull request https://github.com/octo/app/pull/7" }

\* re.search of task_review_pr, and of task_review_code where it fails
TaskTypeIn(response_text) ==
    CASE response_text \in
            { "review the pull request https://github.com/octo/app/pull/7",
              "review the pull request",
              "yes, review the pull request https://github.com/octo/app/pull/7" }
            -> {"review_pr"}
      [] response_text \in
            { "review the source code of https://github.com/octo/app",
              "review the source code" }
            -> {"review_code"}
      [] OTHER -> {}

\* re.findall of github_pr_link, its first match
PrLinkIn(response_text) ==
    IF response_text \in
          { "Please review https://github.com/octo/app/pull/7",
            "review the pull request https://github.com/octo/app/pull/7",
            "yes, review the pull request https://github.com/octo/app/pull/7" }
    THEN {PrLink} ELSE {}

\* re.findall of github_repo_link, its first match: the link of a pull
\* request holds the link of its repository
RepoLinkIn(response_text) ==
    IF PrLinkIn(response_text) # {}
       \/ response_text = "review the source code of https://github.com/octo/app"
    THEN {RepoLink} ELSE {}

\* re.search of user_confirmation
UserConfirmedIn(response_text) ==
    response_text \in
        { "yes", "yes, review the pull request https://github.com/octo/app/pull/7" }

\* extract_information_from_response
ExtractInformationFromResponse(response_text) ==
    [task_type |-> TaskTypeIn(response_text),
     pr_link |-> PrLinkIn(response_text),
     repo_link |-> RepoLinkIn(response_text),
     user_confirmed |-> UserConfirmedIn(response_text)]

\* the empty dict
NothingExtracted(extracted_info) ==
    /\ extracted_info.task_type = {} /\ extracted_info.pr_link = {}
    /\ extracted_info.repo_link = {} /\ ~extracted_info.user_confirmed

\* StateManager.is_information_complete
IsInformationComplete(state) ==
    state.information_collection_status \in {"collected", "confirmed"}

\* the test of the sub-agents, were a collected but unconfirmed status enough
IsInformationCollected(state) ==
    state.information_collection_status \in {"collected", "confirmed"}

\* StateManager.is_information_confirmed
IsInformationConfirmed(state) ==
    state.information_collection_status = "confirmed"

\* StateManager.update_task_progress
UpdateTaskProgress(state, stage, details) ==
    [state EXCEPT !.task_progress = {[current_stage |-> stage, details |-> details]}]

\* StateManager.store_analysis_result
StoreAnalysisResult(state, result_type) ==
    [state EXCEPT !.analysis_results = @ \cup {result_type}]

\* _update_state_with_extracted_info; the task progress "confirmed" goes
\* to the copy get_state_dict_safely made, not to the state
UpdateStateWithExtractedInfo(state, extracted_info) ==
    LET task == IF extracted_info.task_type = {"review_pr"} THEN {"Review PR"}
                ELSE IF extracted_info.task_type = {"review_code"}
                THEN {"Review source code"} ELSE {}
        Set(old, new) == IF new = {} THEN old ELSE CHOOSE value \in new : TRUE
        Note(old, new) == IF new = {} THEN old ELSE new
        with_info ==
            [state EXCEPT
                !.user_task = Set(@, task),
                !.pr_link = Set(@, extracted_info.pr_link),
                !.repo_link = Set(@, extracted_info.repo_link),
                !.collected_info =
                    [task |-> Note(@.task, task),
                     pr_link |-> Note(@.pr_link, extracted_info.pr_link),
                     repo_link |-> Note(@.repo_link, extracted_info.repo_link)]]
    IN  IF extracted_info.user_confirmed /\ IsInformationComplete(with_info)
        THEN [with_info EXCEPT !.information_collection_status = "confirmed"]
        ELSE with_info

\* the check, were it to leave a confirmed status alone
KeepConfirmedStatus(state) ==
    IF IsInformationConfirmed(state) THEN state
    ELSE [state EXCEPT !.information_collection_status =
            IF \/ state.user_task = "Review PR" /\ state.pr_link # ""
               \/ state.user_task = "Review source code" /\ state.repo_link # ""
            THEN "collected" ELSE "collecting"]

\* _check_information_completeness
CheckInformationCompleteness(state) ==
    [state EXCEPT !.information_collection_status =
        IF \/ state.user_task = "Review PR" /\ state.pr_link # ""
           \/ state.user_task = "Review source code" /\ state.repo_link # ""
        THEN "collected" ELSE "collecting"]

\* _generate_confirmation_message_if_needed
GenerateConfirmationMessageIfNeeded(state) ==
    IF IsInformationComplete(state) /\ ~IsInformationConfirmed(state)
    THEN [state EXCEPT !.pending_confirmation_message =
            {[task |-> state.user_task,
              link |-> IF state.user_task = "Review PR" THEN state.pr_link
                       ELSE state.repo_link]}]
    ELSE state

OrInit ==
    /\ session_state = NewSession
    /\ or_turns = 0
    /\ or_out = NoOutcome

\* after_agent_callback(callback_context, agent_response)
AfterAgentCallback ==
    /\ or_turns < MaxTurns
    /\ \E response_text \in Responses :
          LET extracted_info == ExtractInformationFromResponse(response_text)
              updated == IF NothingExtracted(extracted_info) THEN session_state
                         ELSE UpdateStateWithExtractedInfo(session_state,
                                                           extracted_info)
          IN  /\ session_state' =
                    GenerateConfirmationMessageIfNeeded(
                        CheckInformationCompleteness(updated))
              /\ or_out' = [op |-> "after_agent_callback",
                            extracted_info |-> extracted_info,
                            was |-> session_state.information_collection_status,
                            returned |-> {}]
    /\ or_turns' = or_turns + 1
    /\ UNCHANGED or_others

\* what stops pr_review_before_agent_callback: the text it returns
PrReviewBlocked(state) ==
    IF ~IsInformationConfirmed(state) THEN {"information not confirmed"}
    ELSE IF state.user_task # "Review PR" THEN {"only handles the task Review PR"}
    ELSE IF state.pr_link = "" THEN {"no PR link to review"}
    ELSE {}

\* pr_review_before_agent_callback(callback_context)
PrReviewBeforeAgentCallback ==
    /\ or_turns < MaxToolCalls
    /\ session_state' =
          IF PrReviewBlocked(session_state) # {} THEN session_state
          ELSE UpdateTaskProgress(session_state, "pr_review_started",
                                  [pr_link |-> session_state.pr_link])
    /\ or_out' = [op |-> "pr_review_before_agent_callback",
                  returned |-> PrReviewBlocked(session_state)]
    /\ or_turns' = or_turns + 1
    /\ UNCHANGED or_others

\* what stops code_review_tool_function: the error of the dict it returns
CodeReviewBlocked(state) ==
    IF ~IsInformationConfirmed(state) THEN {"Information not confirmed"}
    ELSE IF state.user_task # "Review source code" THEN {"Invalid task type"}
    ELSE {}

\* code_review_tool_function(tool_context, repository_url, analysis_type)
CodeReviewToolFunction ==
    /\ or_turns < MaxToolCalls
    /\ \E repository_url \in {RepoLink, "https://github.com/octo/lib"} :
          /\ session_state' =
                IF CodeReviewBlocked(session_state) # {} THEN session_state
                ELSE UpdateTaskProgress(
                        StoreAnalysisResult(session_state, "code_analysis"),
                        "code_analysis_completed",
                        [repo_url |-> repository_url])
          /\ or_out' =
                IF CodeReviewBlocked(session_state) # {}
                THEN [op |-> "code_review_tool_function",
                      returned |-> [keys |-> {"error", "message"},
                                    error |-> CodeReviewBlocked(session_state)]]
                ELSE [op |-> "code_review_tool_function",
                      returned |-> [keys |-> {"repository_url", "analysis_type",
                                              "status", "findings", "summary"},
                                    error |-> {}]]
    /\ or_turns' = or_turns + 1
    /\ UNCHANGED or_others

-----------------------------------------------------------------------------
(* The tools of the security pipeline (security_agent/agent.py).           *)

\* identify_language of the LanguageIdentifier the pipeline imports: the
\* exception it leaves with where nothing lies at the path
LanguageIdentifierRaises(path_exists) ==
    IF path_exists THEN NoValue ELSE "FileNotFoundError"

\* how a run of the semgrep process may end
SemgrepRuns == {"exit 0", "exit 1", "timeout", "not installed"}

TlInit ==
    tl_out = NoOutcome

\* get_language_profile(project_path): no handler around identify_language
GetLanguageProfile ==
    /\ \E path_exists \in BOOLEAN :
          tl_out' = [op |-> "get_language_profile", failed |-> ~path_exists,
                     raised |-> LanguageIdentifierRaises(path_exists),
                     returned |-> IF path_exists THEN {"str"} ELSE {},
                     keys |-> {}]
    /\ UNCHANGED tl_others

\* run_local_semgrep_scan(project_path, configs): a string in every case
RunLocalSemgrepScan ==
    /\ \E run \in SemgrepRuns :
          tl_out' = [op |-> "run_local_semgrep_scan", failed |-> run # "exit 0",
                     raised |-> NoValue,
                     returned |-> {"str"},
                     keys |-> {},
                     text |-> CASE run = "exit 0" -> "Semgrep scan completed successfully"
                                [] run = "exit 1" -> "Semgrep scan completed with warnings/errors"
                                [] run = "timeout" -> "Semgrep scan timed out after 5 minutes"
                                [] OTHER -> "Error running local Semgrep scan"]
    /\ UNCHANGED tl_others

-----------------------------------------------------------------------------
(* The specifications: one per agent, the other agents at rest.            *)

\* the file system of a run in which no repository is acquired
GoAtRest == GoInit /\ \A path \in Paths : go_fs[path] = Absent

PrAtRest == PrInit /\ api_available

PvAtRest == PvInit /\ pv_inputs = "few"

\* the code fetcher, the orchestrator and the security pipeline at rest
NewAtRest == CfInit /\ OrInit /\ TlInit /\ ScInit

OldAtRest == LiInit /\ GoAtRest /\ PrAtRest /\ PvAtRest /\ DpInit

InitProfiler == LiInit /\ GoAtRest /\ PrAtRest /\ PvAtRest /\ DpInit /\ NewAtRest

InitAcquirer == GoInit /\ LiInit /\ PrAtRest /\ PvAtRest /\ DpInit /\ NewAtRest

InitDiffer == PrInit /\ LiInit /\ GoAtRest /\ PvAtRest /\ DpInit /\ NewAtRest

InitVault == PvAtRest /\ LiInit /\ GoAtRest /\ PrAtRest /\ DpInit /\ NewAtRest

InitValidator == PvInit /\ pv_inputs = "all" /\ LiInit /\ GoAtRest /\ PrAtRest /\ DpInit /\ NewAtRest

\* an agent of any configuration, a tree of any shape without manifests,
\* or nothing at the path
InitAssembler ==
    /\ dp_exists \in BOOLEAN
    /\ dp_tree \in IF dp_exists THEN ProjectTrees ELSE {{}}
    /\ dp_config \in Configs
    /\ dp_profile = DefaultProfile
    /\ dp_manifests = NoManifests
    /\ dp_out = NoContext
    /\ LiInit /\ GoAtRest /\ PrAtRest /\ PvAtRest /\ NewAtRest

\* any manifests at the root of an otherwise empty tree, any primary language
InitMetadata ==
    /\ dp_exists \in BOOLEAN
    /\ dp_tree = {}
    /\ dp_config = DefaultConfig
    /\ dp_profile \in { GivenProfile(primary, << >>) : primary \in PrimaryLanguages }
    /\ dp_manifests \in IF dp_exists THEN Manifests ELSE {NoManifests}
    /\ dp_out = NoContext
    /\ LiInit /\ GoAtRest /\ PrAtRest /\ PvAtRest /\ NewAtRest

\* a fresh CodeFetcherAgent in an empty workspace
InitFetcher == CfInit /\ OrInit /\ TlInit /\ ScInit /\ OldAtRest

\* a fresh CodeFetcherAgent before any remote and pull request
InitPrDiff ==
    /\ cf_cloned = {}
    /\ cf_disk = {}
    /\ cf_remote \in Remotes
    /\ cf_calls = 0
    /\ cf_out = NoOutcome
    /\ OrInit /\ TlInit /\ ScInit /\ OldAtRest

\* a session as before_agent_callback leaves it
InitOrchestrator == OrInit /\ CfInit /\ TlInit /\ ScInit /\ OldAtRest

\* a session in any state when a sub-agent or its tool is called
InitSubagents ==
    /\ session_state \in SessionStates
    /\ or_turns = 0
    /\ or_out = NoOutcome
    /\ CfInit /\ TlInit /\ ScInit /\ OldAtRest

\* the tools before any session and any remote without a patch
InitTools ==
    /\ session_state \in SessionStates
    /\ or_turns = 0
    /\ or_out = NoOutcome
    /\ cf_cloned = {}
    /\ cf_disk = {}
    /\ cf_remote \in { remote \in Remotes :
                        remote.patch = << >> /\ remote.has_parent /\ remote.branches = {} }
    /\ cf_calls = 0
    /\ cf_out = NoOutcome
    /\ TlInit /\ ScInit /\ OldAtRest

\* a tree of files that may fail to be sized or read
InitScan ==
    /\ sc_files \in ScanTrees
    /\ sc_out = NoContext
    /\ CfInit /\ OrInit /\ TlInit /\ OldAtRest

\* a tree for the extension scan or a tree for the assembly
InitPasses ==
    \/ /\ sc_files \in ScanTrees
       /\ sc_out = NoContext
       /\ CfInit /\ OrInit /\ TlInit /\ OldAtRest
    \/ /\ dp_exists \in BOOLEAN
       /\ dp_tree \in IF dp_exists THEN ProjectTrees ELSE {{}}
       /\ dp_config \in Configs
       /\ dp_profile = DefaultProfile
       /\ dp_manifests = NoManifests
       /\ dp_out = NoContext
       /\ LiInit /\ GoAtRest /\ PrAtRest /\ PvAtRest /\ NewAtRest

PassesNext ==
    \/ ScanFileExtensions
    \/ PrepareRaises
    \/ PrepareProjectContext

SubagentsNext ==
    \/ PrReviewBeforeAgentCallback
    \/ CodeReviewToolFunction

ToolsNext ==
    \/ GetLanguageProfile
    \/ RunLocalSemgrepScan
    \/ CodeReviewToolFunction
    \/ GetPrDiff

SpecProfiler == InitProfiler /\ [][LiNext]_vars

SpecAcquirer == InitAcquirer /\ [][GoNext]_vars

SpecDiffer == InitDiffer /\ [][PrNext]_vars

\* the vault used through its methods
SpecVault == InitVault /\ [][PvApi]_vars

\* the vault used through its methods, with entries that may get damaged
SpecVaultDamaged == InitVault /\ [][PvNext]_vars

\* validate_pat_format over all its inputs
SpecValidator == InitValidator /\ [][ValidatePatFormat]_vars

\* prepare_project_context over trees and configurations
SpecAssembler == InitAssembler /\ [][DpNext]_vars

\* prepare_project_context over manifests and primary languages
SpecMetadata == InitMetadata /\ [][DpNext]_vars

\* clone_repository over URLs, force_refresh and outcomes of git
SpecFetcher == InitFetcher /\ [][CodeFetcherCloneRepository]_vars

\* get_pr_diff over URLs, remotes and patches
SpecPrDiff == InitPrDiff /\ [][GetPrDiff]_vars

\* the orchestrator's after_agent_callback over responses
SpecOrchestrator == InitOrchestrator /\ [][AfterAgentCallback]_vars

\* the review sub-agent's callback and tool over sessions
SpecSubagents == InitSubagents /\ [][SubagentsNext]_vars

\* _analyze_file_extensions over trees of single files
SpecScan == InitScan /\ [][ScanFileExtensions]_vars

\* the profiling scan and the assembly over trees with failing files
SpecPasses == InitPasses /\ [][PassesNext]_vars

\* the functions exposed as tools to the agent runtime
SpecTools == InitTools /\ [][ToolsNext]_vars

-----------------------------------------------------------------------------
(* Properties of the language profile.                                     *)

Returned == li_pc = "returned"

Languages == li_profile.languages

Percentages == [i \in 1..Len(Languages) |-> Languages[i].percentage]

Abs(x) == IF x < 0 THEN -x ELSE x

\* position of a language in the static extension table
TableIndex(name) ==
    CHOOSE i \in 1..Len(language_extensions) : language_extensions[i].lang = name

\* C1, as stated: the percentages of a non-empty language list sum to
\* exactly 100.
C1_SumExactly100 ==
    Returned /\ Languages # << >> => SumSeq(Percentages) = 10000

\* C1, amended: every percentage is rounded to two decimals, so the
\* percentages of a non-empty language list sum to 100 up to half a
\* hundredth per language.
C1_SumWithinRounding ==
    Returned /\ Languages # << >> =>
        2 * Abs(SumSeq(Percentages) - 10000) <= Len(Languages)

\* three languages with one file each: 33.33 + 33.33 + 33.33
C1_Witness ==
    /\ Returned
    /\ Len(Languages) = 3
    /\ \A i \in 1..3 : Languages[i].file_count = 1
    /\ SumSeq(Percentages) = 9999

\* C2, as stated: each percentage is exactly file_count / total * 100 and
\* the primary language has the largest file count.
C2_ExactShare ==
    Returned /\ Languages # << >> =>
        LET total == SumSeq([i \in 1..Len(Languages) |-> Languages[i].file_count])
        IN  /\ \A i \in 1..Len(Languages) :
                  Languages[i].percentage * total = Languages[i].file_count * 10000
            /\ \E i \in 1..Len(Languages) :
                  /\ Languages[i].name = li_profile.primary_language
                  /\ \A j \in 1..Len(Languages) :
                        Languages[i].file_count >= Languages[j].file_count

\* C2, as stated, its second half alone: the primary language has the
\* largest file count.
PrimaryHasMostFiles ==
    Returned /\ Languages # << >> =>
        \E i \in 1..Len(Languages) :
            /\ Languages[i].name = li_profile.primary_language
            /\ \A j \in 1..Len(Languages) :
                  Languages[i].file_count >= Languages[j].file_count

\* C2, amended: each percentage is file_count / total * 100 rounded to two
\* decimals (within half a hundredth of the exact share), the file counts
\* are those of the scan, the primary language is one with the largest
\* rounded percentage, a language with more files than the primary one has
\* the same rounded percentage, and {A: 3, B: 1} gives 75.0, 25.0 and A.
C2_RoundedShare ==
    Returned /\ Languages # << >> =>
        LET total == SumSeq([i \in 1..Len(li_scan.language_stats) |->
                                li_scan.language_stats[i].file_count])
        IN  /\ Len(Languages) = Len(li_scan.language_stats)
            /\ \A i \in 1..Len(Languages) :
                  /\ 2 * Abs(Languages[i].percentage * total
                               - Languages[i].file_count * 10000) <= total
                  /\ \E k \in 1..Len(li_scan.language_stats) :
                        li_scan.language_stats[k] =
                            [lang |-> Languages[i].name,
                             file_count |-> Languages[i].file_count]
            /\ \E i \in 1..Len(Languages) :
                  /\ Languages[i].name = li_profile.primary_language
                  /\ \A j \in 1..Len(Languages) :
                        /\ Languages[i].percentage >= Languages[j].percentage
                        /\ Languages[j].file_count > Languages[i].file_count
                             => Languages[j].percentage = Languages[i].percentage
            /\ (Len(Languages) = 2 /\ \E i, j \in 1..2 :
                    Languages[i].file_count = 3 /\ Languages[j].file_count = 1)
                 => /\ Languages[1].file_count = 3 /\ Languages[1].percentage = 7500
                    /\ Languages[2].percentage = 2500
                    /\ li_profile.primary_language = Languages[1].name

\* a tree with three files of one language and one of another
C2_Witness ==
    /\ Returned
    /\ li_tree.plain = << 3, 1, 0, 0 >>
    /\ li_tree.special = {}
    /\ li_profile.primary_language = "Python"
    /\ Percentages = << 7500, 2500 >>

Matched == li_scan.language_stats # << >>

ConfigFound == li_scan.config_analysis # {}

\* C4: the confidence is 0.5 for a matched file plus 0.3 for a config file
\* plus 0.1 for more than one language, at most 1.0; it lies in [0, 1]; with
\* matched files and a config file it is at least 0.8, with matched files
\* alone between 0.5 and 0.6, without matched files at most 0.3, so each
\* class scores strictly above the next.
C4_ConfidenceScore ==
    Returned =>
        /\ li_profile.confidence_score =
              Min((IF Matched THEN 5 ELSE 0) + (IF ConfigFound THEN 3 ELSE 0)
                  + (IF Len(li_scan.language_stats) > 1 THEN 1 ELSE 0), 10)
        /\ li_profile.confidence_score \in 0..10
        /\ Matched /\ ConfigFound => li_profile.confidence_score >= 8
        /\ Matched /\ ~ConfigFound => li_profile.confidence_score \in 5..6
        /\ ~Matched => li_profile.confidence_score <= 3

\* several languages and a config file: 0.9
C4_Witness ==
    /\ Returned
    /\ Matched /\ ConfigFound /\ Len(li_scan.language_stats) > 1
    /\ li_profile.confidence_score = 9

\* C5: the language list is ordered by non-increasing percentage, equal
\* percentages in the order of the extension table, and the primary
\* language is the first entry's name, "Unknown" for an empty list.
C5_SortedStable ==
    Returned =>
        /\ \A i, j \in 1..Len(Languages) :
              i < j =>
                /\ Languages[i].percentage >= Languages[j].percentage
                /\ Languages[i].percentage = Languages[j].percentage
                     => TableIndex(Languages[i].name) < TableIndex(Languages[j].name)
        /\ li_profile.primary_language =
              IF Languages = << >> THEN "Unknown" ELSE Languages[1].name

\* a later language of the table leads, two equal ones follow in table order
C5_Witness ==
    /\ Returned
    /\ Len(Languages) = 3
    /\ Languages[1].name = "C"
    /\ Languages[2].name = "Python" /\ Languages[3].name = "Java"
    /\ Languages[2].percentage = Languages[3].percentage

FrameworkNames == { li_profile.frameworks[i].framework : i \in 1..Len(li_profile.frameworks) }

RootNames == { << f.stem, f.ext >> : f \in { s \in li_tree.special : s.dir = "" } }

\* C6: the project type is that of the first rule that applies, in the order
\* mobile, web_frontend, web_backend, data_science, library,
\* containerized_app, general.
C6_FirstRuleWins ==
    Returned =>
        LET mobile == FrameworkNames \cap {"Flutter", "Android"} # {}
            frontend == FrameworkNames
                          \cap {"React", "Vue", "Vue.js", "Angular", "Angular Dart"} # {}
            backend == FrameworkNames \cap {"Express", "Django", "Flask"} # {}
            science == FrameworkNames \cap {"Streamlit", "Jupyter"} # {}
            library == RootNames
                          \cap { << "setup", ".py" >>, << "pyproject", ".toml" >> } # {}
            container == << "Dockerfile", "" >> \in RootNames
            type == li_profile.project_type
        IN  /\ mobile => type = "mobile"
            /\ ~mobile /\ frontend => type = "web_frontend"
            /\ ~mobile /\ ~frontend /\ backend => type = "web_backend"
            /\ ~mobile /\ ~frontend /\ ~backend /\ science => type = "data_science"
            /\ ~mobile /\ ~frontend /\ ~backend /\ ~science /\ library
                 => type = "library"
            /\ ~mobile /\ ~frontend /\ ~backend /\ ~science /\ ~library /\ container
                 => type = "containerized_app"
            /\ ~mobile /\ ~frontend /\ ~backend /\ ~science /\ ~library /\ ~container
                 => type = "general"

\* an Android label and a React label together: mobile
C6_Witness ==
    /\ Returned
    /\ {"Android", "React"} \subseteq FrameworkNames
    /\ li_profile.project_type = "mobile"

-----------------------------------------------------------------------------
(* Claims about clone_repository.                                          *)

\* the call has got past the URL validation or has ended there
Validated == go_pc \notin {"idle", "validate"}

\* the URL of the call contains the substring, whatever its case
UrlHas(substring) == ContainsLower(go_call.repo_url, substring)

RejectedUntouched ==
    /\ go_pc = "raised"
    /\ go_result.kind = "ValueError"
    /\ ~go_clone.attempted

C8_NoDirectoryAfterFailure ==
    (go_pc = "raised" /\ go_result.kind \in {"GitCommandError", "Exception"})
        => go_fs[go_path] = Absent

\* a clone that failed and left a partly written directory, at a path where
\* a directory lay before the call
C8_Witness ==
    /\ go_pc = "raised"
    /\ go_result.kind = "GitCommandError"
    /\ go_clone.outcome = "partial"
    /\ go_fs0[go_path] = Preexisting
    /\ go_fs[go_path] = Absent

\* C9: with a valid URL the directory at the local path is gone when the
\* clone is attempted, so after the call nothing lies there but what this
\* call cloned; a call whose URL fails the validation removes nothing.
C9_FreshClone ==
    /\ go_pc = "clone" => go_fs[go_path] = Absent
    /\ go_clone.attempted => go_clone.outcome # "refused"
    /\ (go_pc \in {"returned", "raised"} /\ go_result.kind # "ValueError")
          => \/ go_fs[go_path] = Absent
             \/ go_fs[go_path] = [kind |-> "content", call |-> go_calls]
    /\ (go_pc = "raised" /\ go_result.kind = "ValueError") => go_fs = go_fs0

\* the second call clones to the path the first call cloned to
C9_Witness ==
    /\ go_pc = "returned"
    /\ go_calls = 2
    /\ go_fs0[go_path] = [kind |-> "content", call |-> 1]
    /\ go_fs[go_path] = [kind |-> "content", call |-> 2]

-----------------------------------------------------------------------------
(* Claims about get_pr_details.                                            *)

\* the platform of the URL is neither GitHub nor GitLab
UnknownPlatform ==
    /\ pr_call.repo_url # NoUrl
    /\ ~ContainsLower(pr_call.repo_url, "github.com")
    /\ ~ContainsLower(pr_call.repo_url, "gitlab.com")

GithubUrl == pr_call.repo_url # NoUrl /\ ContainsLower(pr_call.repo_url, "github.com")

\* C11: for a GitHub URL, when a step of the API path (URL parsing, lookup
\* of the repository or the pull request, download of the diff, listing of
\* the files) raised, get_pr_details returns the fallback stub, never a
\* result of platform "github".
C11_FailedStepFallsBack ==
    (pr_pc = "returned" /\ GithubUrl /\ pr_pull.failed # {})
        => /\ pr_result.platform = "git_fallback"
           /\ "fallback" \in DOMAIN pr_result.metadata
           /\ pr_result.metadata.fallback = TRUE

\* C11 for the steps whose exception reaches the handler of
\* _fetch_github_pr: URL parsing, lookup, and the building of the result
C11_UnswallowedFailureFallsBack ==
    (pr_pc = "returned" /\ GithubUrl /\ pr_pull.failed \cap {"lookup", "info"} # {})
        => pr_result.platform = "git_fallback"

\* a fallback result has reached the caller
FallbackReturned == pr_pc = "returned" /\ pr_result.platform = "git_fallback"

EmptyStub ==
    /\ pr_result.changed_files = << >>
    /\ pr_result.files_added = << >>
    /\ pr_result.files_modified = << >>
    /\ pr_result.files_deleted = << >>
    /\ pr_result.additions = 0
    /\ pr_result.deletions = 0
    /\ pr_result.changed_lines = 0

\* C12 as stated: every fallback PullRequestInfo has an empty diff text,
\* empty changed/added/modified/deleted lists and additions, deletions and
\* changed_lines of 0.
C12_FallbackEmptyDiff ==
    FallbackReturned => (pr_result.diff_text = "" /\ EmptyStub)

\* C12 amended: every fallback PullRequestInfo has the fixed diff text
\* "Diff not available via Git fallback", which is not empty, empty
\* changed/added/modified/deleted lists and additions, deletions and
\* changed_lines of 0, whatever the API path fetched before it failed.
C12_FallbackPlaceholderDiff ==
    FallbackReturned =>
        (pr_result.diff_text = "Diff not available via Git fallback" /\ EmptyStub)

\* the fallback after a pull request with files and a diff was fetched and
\* the building of the GitHub result raised
C12_Witness ==
    /\ FallbackReturned
    /\ pr_pull.failed = {"info"}
    /\ pr_pull.files.changed_files # << >>
    /\ pr_pull.diff_text = "diff --git"

-----------------------------------------------------------------------------
(* Claims about the credential vault.                                      *)

\* what retrieve_pat yields for a hash in the vault as it stands
Retrievable(token_hash) ==
    { Decrypt(pv_key, pat_info.encrypted_token).plain :
         pat_info \in EntriesOf(pv_stored, token_hash) }

\* the places of the entry of a hash in stored_pats
PlacesOf(token_hash) == { i \in 1..Len(pv_stored) : pv_stored[i].token_hash = token_hash }

\* two store_pat calls with the same token and session id, none cleared since
SameTwice(i, j) ==
    /\ i < j
    /\ pv_issued[i].token = pv_issued[j].token
    /\ pv_issued[i].session_id = pv_issued[j].session_id
    /\ pv_issued[i].live /\ pv_issued[j].live

\* C13: two store_pat calls with the same token and the same session id
\* return two different hashes and keep two separate entries, and
\* retrieve_pat on each of the two hashes returns the token unchanged.
C13_SameTokenTwoHashes ==
    /\ \A i, j \in 1..Len(pv_issued) :
          SameTwice(i, j) =>
             /\ pv_issued[i].token_hash # pv_issued[j].token_hash
             /\ Cardinality(PlacesOf(pv_issued[i].token_hash)) = 1
             /\ Cardinality(PlacesOf(pv_issued[j].token_hash)) = 1
             /\ PlacesOf(pv_issued[i].token_hash) # PlacesOf(pv_issued[j].token_hash)
             /\ Retrievable(pv_issued[i].token_hash) = {pv_issued[i].token}
             /\ Retrievable(pv_issued[j].token_hash) = {pv_issued[i].token}
    /\ \A i, j \in 1..Len(pv_issued) :
          (SameTwice(i, j) /\ pv_out.op = "retrieve_pat"
              /\ pv_out.token_hash \in {pv_issued[i].token_hash, pv_issued[j].token_hash})
             => pv_out.value = pv_issued[i].token

\* the same token stored twice in session s1, and the first hash retrieved
C13_Witness ==
    /\ Len(pv_issued) = 2
    /\ SameTwice(1, 2)
    /\ Len(pv_stored) = 2
    /\ pv_out.op = "retrieve_pat"
    /\ pv_out.token_hash = pv_issued[1].token_hash
    /\ pv_out.value = GithubToken

\* C14: whatever store_pat, retrieve_pat, validate_pat_format and
\* get_stored_pat_info calls were made, every hash store_pat returned is in
\* the vault and yields the token it was stored with; entries leave the
\* vault only in a clear_session_pats call, after which retrieve_pat
\* returns None for every hash returned before.
C14_EntriesLiveUntilCleared ==
    /\ [](\A i \in 1..Len(pv_issued) :
             IF pv_issued[i].live
             THEN Retrievable(pv_issued[i].token_hash) = {pv_issued[i].token}
             ELSE Retrievable(pv_issued[i].token_hash) = {})
    /\ [](pv_out.op = "retrieve_pat" =>
             \A i \in 1..Len(pv_issued) :
                pv_out.token_hash = pv_issued[i].token_hash =>
                   pv_out.value = IF pv_issued[i].live THEN pv_issued[i].token
                                  ELSE NoToken)
    /\ [][ (StoredHashes(pv_stored) \ StoredHashes(pv_stored')) # {}
              => (pv_out'.op = "clear_session_pats" /\ pv_stored' = << >>) ]_vars

\* two entries, the first retrieved after the second was stored, and the
\* stored information listed since
C14_Witness ==
    /\ Len(pv_issued) = 2
    /\ Len(pv_stored) = 2
    /\ pv_stored[1].last_used > pv_stored[2].created_at
    /\ pv_out.op = "get_stored_pat_info"

\* a hash returned before a clear_session_pats is asked for after it
C14_WitnessCleared ==
    /\ Len(pv_issued) = 2
    /\ ~pv_issued[1].live
    /\ pv_issued[2].live
    /\ pv_out.op = "retrieve_pat"
    /\ pv_out.token_hash = pv_issued[1].token_hash
    /\ pv_out.value = NoToken

\* the entries as a successful retrieve_pat(token_hash) at time now leaves
\* them: the entry asked for with a new last_used, every other as it was
OnlyStamped(stored, token_hash, now) ==
    [i \in 1..Len(stored) |->
        [platform |-> stored[i].platform,
         username |-> stored[i].username,
         token_hash |-> stored[i].token_hash,
         encrypted_token |-> stored[i].encrypted_token,
         created_at |-> stored[i].created_at,
         last_used |-> IF i \in PlacesOf(token_hash) THEN now
                       ELSE stored[i].last_used]]

\* C15: retrieve_pat never raises; for a hash that is not stored and for an
\* entry whose decryption fails it returns None and leaves every stored
\* entry, last_used included, as it was; a successful retrieval returns the
\* token and sets last_used on the retrieved entry and on no other.
C15_RetrieveNeverRaises ==
    [][ RetrievePat =>
          LET token_hash == pv_out'.token_hash
          IN  /\ pv_out'.op = "retrieve_pat"
              /\ pv_out'.raised = NoValue
              /\ IF Retrievable(token_hash) \subseteq {NoToken}
                 THEN /\ pv_out'.value = NoToken
                      /\ pv_stored' = pv_stored
                 ELSE /\ Retrievable(token_hash) = {pv_out'.value}
                      /\ pv_stored' = OnlyStamped(pv_stored, token_hash, pv_now) ]_vars

\* two entries: the second was retrieved, the first was damaged since it was
\* stored, and retrieve_pat on the first returned None and stamped nothing
C15_Witness ==
    /\ Len(pv_stored) = 2
    /\ pv_stored[1].encrypted_token.kind = "garbage"
    /\ pv_stored[1].last_used = NeverUsed
    /\ pv_stored[2].last_used # NeverUsed
    /\ pv_out.op = "retrieve_pat"
    /\ pv_out.raised = NoValue
    /\ pv_out.token_hash = pv_stored[1].token_hash
    /\ pv_out.value = NoToken

\* the format rule of a platform name and a token, case by case
ExpectedFormat(platform, token) ==
    CASE Lower(platform) = "github" ->
            /\ token.len >= 40
            /\ token.prefix \in {"ghp_", "gho_", "ghu_", "ghs_", "ghr_"}
      [] Lower(platform) = "gitlab" ->
            /\ token.len >= 20
            /\ token.prefix = "glpat-"
      [] Lower(platform) = "bitbucket" -> token.len >= 32
      [] OTHER ->
            /\ token.len >= 20
            /\ token.prefix = ""
            /\ token.body = "alnum"

\* C16: validate_pat_format(platform, token), the platform name compared
\* without regard to case, returns True exactly when: for github the token
\* has 40 characters or more and starts with ghp_, gho_, ghu_, ghs_ or
\* ghr_; for gitlab 20 or more and glpat- in front; for bitbucket 32 or
\* more; for every other platform 20 or more, all letters and digits.
\* ("github", ghp_ and 40 characters) is True, ("github", "short") False.
C16_FormatRules ==
    pv_out.op = "validate_pat_format" =>
        /\ pv_out.value = ExpectedFormat(pv_out.platform, pv_out.token)
        /\ (pv_out.platform = "github" /\ pv_out.token = Token("ghp_", 44, "alnum"))
              => pv_out.value = TRUE
        /\ (pv_out.platform = "github" /\ pv_out.token = Token("", 5, "alnum"))
              => pv_out.value = FALSE

\* a GitHub token of 40 characters with a prefix GitHub does not use was
\* refused under the platform name "GitHub"
C16_Witness ==
    /\ pv_out.op = "validate_pat_format"
    /\ pv_out.platform = "GitHub"
    /\ pv_out.token = Token("ghx_", 40, "alnum")
    /\ pv_out.value = FALSE

\* one of the two examples was validated
C16_WitnessExamples ==
    /\ pv_out.op = "validate_pat_format"
    /\ \/ pv_out.platform = "github" /\ pv_out.token = Token("ghp_", 44, "alnum")
             /\ pv_out.value = TRUE
       \/ pv_out.platform = "github" /\ pv_out.token = Token("", 5, "alnum")
             /\ pv_out.value = FALSE

\* the tokens given to store_pat so far
Cleartexts == { pv_issued[i].token : i \in 1..Len(pv_issued) }

\* another token than the one given
OtherCleartext(token) ==
    IF token = GithubToken THEN Token("gho_", 40, "alnum") ELSE GithubToken

\* the vault that differs from this one in the cleartext of every stored token
Recoded(stored) ==
    [i \in 1..Len(stored) |->
        [stored[i] EXCEPT !.encrypted_token.plain =
                              OtherCleartext(stored[i].encrypted_token.plain)]]

\* C17: outside the return value of retrieve_pat no operation of the vault
\* returns or logs a cleartext token: no log line of any operation names
\* one, store_pat returns the hash alone, get_stored_pat_info returns
\* platform, username, hash prefix, created_at and last_used of each entry
\* and returns the same for a vault that differs in the cleartext of the
\* stored tokens, and an entry holds the token as ciphertext of the session
\* key only.
C17_NoCleartextOutsideRetrieve ==
    /\ pv_out.op # NoValue =>
          \A i \in 1..Len(pv_out.log) : pv_out.log[i] \notin Cleartexts
    /\ (pv_out.op = "store_pat" /\ pv_out.raised = NoValue) =>
          /\ pv_issued # << >>
          /\ pv_out.value = pv_issued[Len(pv_issued)].token_hash
    /\ pv_out.op = "get_stored_pat_info" =>
          /\ pv_out.value = StoredPatInfo(pv_key, Recoded(pv_stored))
          /\ \A i \in 1..Len(pv_out.value) :
                DOMAIN pv_out.value[i] =
                   {"platform", "username", "token_hash", "created_at", "last_used"}
    /\ \A i \in 1..Len(pv_stored) :
          /\ DOMAIN pv_stored[i] =
                {"platform", "username", "token_hash", "encrypted_token",
                 "created_at", "last_used"}
          /\ pv_stored[i].encrypted_token \notin Cleartexts
          /\ Decrypt(pv_key, pv_stored[i].encrypted_token).plain \in Cleartexts
          /\ ~Decrypt("another_key", pv_stored[i].encrypted_token).ok

\* two different tokens are stored, one of them was retrieved, and the
\* stored information was listed
C17_Witness ==
    /\ pv_out.op = "get_stored_pat_info"
    /\ Len(pv_out.value) = 2
    /\ pv_stored[1].encrypted_token.plain # pv_stored[2].encrypted_token.plain
    /\ \E i \in 1..2 : pv_stored[i].last_used # NeverUsed

-----------------------------------------------------------------------------
(* Claims about the project context assembler.                             *)

\* prepare_project_context returned a context
ContextReturned == dp_out.op = "prepare_project_context" /\ dp_out.raised = NoValue

\* a directory whose name is in the ignore set
IgnoredDir(node) == node.kind = "dir" /\ NodeName(node) \in common_ignore_dirs

\* a node below a directory whose name is in the ignore set
BelowIgnored(node) ==
    \E i \in 1..(Len(node.path) - 1) : node.path[i] \in common_ignore_dirs

\* the counts of a tree with everything below its ignored directories left out
CountsWithoutIgnored ==
    /\ dp_out.directory_structure.total_files =
          Cardinality({ n \in dp_tree : n.kind = "file" /\ ~BelowIgnored(n) })
    /\ dp_out.directory_structure.total_directories =
          Cardinality({ n \in dp_tree : n.kind = "dir" /\ ~BelowIgnored(n) })
    /\ dp_out.directory_structure.max_depth =
          MaxOf({ Len(n.path) : n \in { d \in dp_tree :
                     d.kind = "dir" /\ ~BelowIgnored(d) /\ ~IgnoredDir(d) } })

\* the name is once in ignored_directories
RecordedOnce(name) ==
    /\ name \in DOMAIN dp_out.directory_structure.ignored_directories
    /\ dp_out.directory_structure.ignored_directories[name] = 1

\* C18: the analysis of the directory structure descends into no directory
\* whose name is in the ignore set: nothing below such a directory counts
\* in total_files, total_directories or max_depth, and the name of every
\* such directory is once in ignored_directories.
C18_IgnoredPrunedAndRecorded ==
    ContextReturned =>
        /\ CountsWithoutIgnored
        /\ \A d \in dp_tree : IgnoredDir(d) => RecordedOnce(NodeName(d))

\* C18, amended: nothing below a directory whose name is in the ignore set
\* counts in total_files, total_directories or max_depth; ignored_directories
\* holds once each the names of the ignored directories that lie below no
\* other ignored directory, and no other name.
C18_IgnoredPrunedOutermostRecorded ==
    ContextReturned =>
        /\ CountsWithoutIgnored
        /\ \A d \in dp_tree :
              (IgnoredDir(d) /\ ~BelowIgnored(d)) => RecordedOnce(NodeName(d))
        /\ DOMAIN dp_out.directory_structure.ignored_directories =
              { NodeName(d) : d \in { n \in dp_tree :
                                        IgnoredDir(n) /\ ~BelowIgnored(n) } }

\* a tree with build at the root and in src, and a file in the latter
C18_Witness ==
    /\ ContextReturned
    /\ DirNode(<< "build" >>) \in dp_tree
    /\ DirNode(<< "src", "build" >>) \in dp_tree
    /\ dp_out.directory_structure.total_directories = 3
    /\ dp_out.directory_structure.max_depth = 1
    /\ RecordedOnce("build")

\* a tree with a file below an ignored directory and one beside it
C18_WitnessFiles ==
    /\ ContextReturned
    /\ \E f \in dp_tree : f.kind = "file" /\ BelowIgnored(f)
    /\ dp_out.directory_structure.total_files = 1

\* the entries of the returned FileInfo list for a file of the tree
EntriesFor(file) ==
    { i \in 1..Len(dp_out.files) : dp_out.files[i].relative_path = file.path }

\* the conditions under which a file is to have an entry
Eligible(file) ==
    /\ ~BelowIgnored(file)
    /\ ~StartsWithDot(NodeName(file))
    /\ file.size # NoSize
    /\ file.size <= dp_config.max_file_size_bytes
    /\ Lower(SplitExt(NodeName(file))) \notin dp_config.exclude_extensions
    /\ dp_config.include_test_files \/ ~IsTestFile(file.path)

\* C19: the FileInfo list prepare_project_context returns holds exactly one
\* entry for each file that lies below no ignored directory, has a name
\* that does not start with a dot, has a size of at most the configured
\* limit, has an extension outside the excluded list and, when
\* include_test_files is false, is not classified as a test file; a file
\* that fails one of these has no entry, and every entry is of a file of
\* the tree.
C19_OneEntryPerEligibleFile ==
    ContextReturned =>
        /\ \A file \in { n \in dp_tree : n.kind = "file" } :
              Cardinality(EntriesFor(file)) = IF Eligible(file) THEN 1 ELSE 0
        /\ \A i \in 1..Len(dp_out.files) :
              \E file \in dp_tree :
                 /\ file.kind = "file"
                 /\ dp_out.files[i].relative_path = file.path
                 /\ dp_out.files[i].size_bytes = file.size
        /\ dp_out.preparation_config.total_files_analyzed = Len(dp_out.files)

\* under the default limit and list a file of exactly 1 MB has its entry,
\* a file of one byte more and a picture have none
C19_Witness ==
    /\ ContextReturned
    /\ dp_config.max_file_size_bytes = DefaultMaxFileSizeBytes
    /\ dp_tree = { FileNode(<< "edge.py" >>, DefaultMaxFileSizeBytes),
                   FileNode(<< "big.py" >>, DefaultMaxFileSizeBytes + 1),
                   FileNode(<< "LOGO.PNG" >>, SmallSize) }
    /\ Len(dp_out.files) = 1
    /\ dp_out.files[1].relative_path = << "edge.py" >>

\* test files are left out when include_test_files is false: the file in
\* tests has no entry
C19_WitnessTests ==
    /\ ContextReturned
    /\ ~dp_config.include_test_files
    /\ FileNode(<< "tests", "util.py" >>, SmallSize) \in dp_tree
    /\ FileNode(<< "main.py" >>, SmallSize) \in dp_tree
    /\ Len(dp_out.files) = 1

\* the primary languages that have a parser, lower-cased
ParsedLanguages == {"python", "javascript", "typescript", "java", "dart"}

\* the manifests the parser of a primary language reads
ManifestsOf(primary_lang) ==
    CASE primary_lang = "python" -> {"pyproject.toml", "requirements.txt"}
      [] primary_lang \in {"javascript", "typescript"} -> {"package.json"}
      [] primary_lang = "java" -> {"pom.xml"}
      [] primary_lang = "dart" -> {"pubspec.yaml"}
      [] OTHER -> {}

\* the manifests as they are with all but those of a set missing
Only(names) ==
    [m \in ManifestNames |-> IF m \in names THEN dp_manifests[m] ELSE "missing"]

\* C20: the project metadata comes from one parser, chosen by the primary
\* language without regard to case (Python, JavaScript or TypeScript, Java,
\* Dart): the manifests of the other parsers do not bear on the result.
\* For every other primary language, "Unknown" included, the result has
\* the name of the directory and an empty dependency map, and version,
\* description, author, license, scripts and keywords are unset, whatever
\* manifests the tree holds.
C20_OneParserByPrimaryLanguage ==
    ContextReturned =>
        LET primary_lang == Lower(dp_profile.primary_language)
        IN  /\ dp_out.project_metadata =
                  ExtractProjectMetadata(Only(ManifestsOf(primary_lang)), dp_profile)
            /\ primary_lang \notin ParsedLanguages =>
                  /\ dp_out.project_metadata.name = {ProjectName}
                  /\ dp_out.project_metadata.dependencies = {}
                  /\ dp_out.project_metadata.version = {}
                  /\ dp_out.project_metadata.description = {}
                  /\ dp_out.project_metadata.author = {}
                  /\ dp_out.project_metadata.license = {}
                  /\ dp_out.project_metadata.scripts = {}
                  /\ dp_out.project_metadata.keywords = {}
            /\ (primary_lang \in ParsedLanguages
                  /\ \A m \in ManifestsOf(primary_lang) : dp_manifests[m] = "full")
                  => dp_out.project_metadata.version = {"1.0.0"}

\* a tree of primary language Go that holds every manifest in full
C20_Witness ==
    /\ ContextReturned
    /\ dp_profile.primary_language = "Go"
    /\ \A m \in ManifestNames : dp_manifests[m] = "full"
    /\ dp_out.project_metadata = NewMetadata(ProjectName)

\* primary language PYTHON: pyproject.toml is read, package.json is not
C20_WitnessPython ==
    /\ ContextReturned
    /\ dp_profile.primary_language = "PYTHON"
    /\ \A m \in ManifestNames : dp_manifests[m] = "full"
    /\ dp_out.project_metadata.name = {"pyproject-name"}
    /\ dp_out.project_metadata.scripts = {}

\* the manifest the parser of a primary language takes the fields from
MainManifest(primary_lang) ==
    CASE primary_lang = "python" -> "pyproject.toml"
      [] primary_lang \in {"javascript", "typescript"} -> "package.json"
      [] primary_lang = "java" -> "pom.xml"
      [] OTHER -> "pubspec.yaml"

\* the dependency categories a manifest fills
CategoriesOf(manifest) ==
    CASE manifest = "pyproject.toml" -> {"runtime"}
      [] manifest = "package.json" -> {"dependencies", "devDependencies"}
      [] manifest = "pom.xml" -> {"maven"}
      [] manifest = "pubspec.yaml" -> {"dependencies", "dev_dependencies"}
      [] OTHER -> {"requirements"}

\* a manifest was parsed that holds none of the fields the parser reads
BareManifestParsed ==
    /\ ContextReturned
    /\ Lower(dp_profile.primary_language) \in ParsedLanguages
    /\ dp_manifests[MainManifest(Lower(dp_profile.primary_language))] = "bare"

\* C21: a field that is absent from the manifest parsed (version,
\* description, author, license, keywords, scripts, a dependency category)
\* is unset in the ProjectMetadata, not filled with an empty string or an
\* empty list.
C21_AbsentFieldsStayUnset ==
    BareManifestParsed =>
        /\ dp_out.project_metadata.version = {}
        /\ dp_out.project_metadata.description = {}
        /\ dp_out.project_metadata.author = {}
        /\ dp_out.project_metadata.license = {}
        /\ dp_out.project_metadata.keywords = {}
        /\ dp_out.project_metadata.scripts = {}
        /\ \A e \in dp_out.project_metadata.dependencies :
              e.key \notin CategoriesOf(MainManifest(Lower(dp_profile.primary_language)))

\* what the parsers do with absent fields: version, description, license,
\* scripts and the dependency categories stay unset; author is "" after
\* pyproject.toml; keywords is [] after pyproject.toml and package.json
C21_AbsentFieldsUnsetOrDefaulted ==
    BareManifestParsed =>
        LET manifest == MainManifest(Lower(dp_profile.primary_language))
        IN  /\ dp_out.project_metadata.version = {}
            /\ dp_out.project_metadata.description = {}
            /\ dp_out.project_metadata.license = {}
            /\ dp_out.project_metadata.scripts = {}
            /\ \A e \in dp_out.project_metadata.dependencies :
                  e.key \notin CategoriesOf(manifest)
            /\ dp_out.project_metadata.author =
                  IF manifest = "pyproject.toml" THEN {""} ELSE {}
            /\ dp_out.project_metadata.keywords =
                  IF manifest \in {"pyproject.toml", "package.json"}
                  THEN {<< >>} ELSE {}

-----------------------------------------------------------------------------
(* Properties of the functions exposed as tools.                           *)

\* the last call of each tool: the exception that left it, whether it
\* reports a failure, and the keys of the dict it returned (none for a string)
ToolOutcomes ==
    (IF tl_out.op # NoValue
     THEN {[tool |-> tl_out.op, raised |-> tl_out.raised,
            failed |-> tl_out.failed, keys |-> tl_out.keys]}
     ELSE {})
    \cup
    (IF or_out.op = "code_review_tool_function"
     THEN {[tool |-> or_out.op, raised |-> NoValue,
            failed |-> or_out.returned.error # {},
            keys |-> or_out.returned.keys]}
     ELSE {})
    \cup
    (IF cf_out.op = "get_pr_diff"
     THEN {[tool |-> cf_out.op, raised |-> cf_out.raised,
            failed |-> cf_out.result.error # {},
            keys |-> DOMAIN cf_out.result]}
     ELSE {})

\* C22: whenever get_language_profile, run_local_semgrep_scan,
\* code_review_tool_function or get_pr_diff has been called, no exception
\* left the call, and a call that failed returned a dict that holds both an
\* error and a message.
C22_ToolsReturnStructuredErrors ==
    \A outcome \in ToolOutcomes :
        /\ outcome.raised = NoValue
        /\ outcome.failed => {"error", "message"} \subseteq outcome.keys

\* of the four tools, code_review_tool_function alone reports its failures
\* as the claim says
C22_CodeReviewToolReportsErrors ==
    \A outcome \in ToolOutcomes :
        outcome.tool = "code_review_tool_function" =>
            /\ outcome.raised = NoValue
            /\ outcome.failed => {"error", "message"} \subseteq outcome.keys

\* get_pr_diff lets no exception leave, but its dict holds no message
C22_PrDiffReportsErrorOnly ==
    \A outcome \in ToolOutcomes :
        outcome.tool = "get_pr_diff" =>
            /\ outcome.raised = NoValue
            /\ "error" \in outcome.keys /\ "message" \notin outcome.keys

-----------------------------------------------------------------------------
(* Properties of get_pr_diff.                                              *)

\* get_pr_diff came to look for a base commit: the URL was valid, the
\* clone and the fetch of the pull request's ref succeeded
LookedForBase ==
    /\ cf_out.op = "get_pr_diff"
    /\ cf_out.locals.tried # << >>

\* the result of an error: an error, no diff, no line and no file counted
ErrorResult(result) ==
    /\ result.error # {}
    /\ result.diff = << >>
    /\ result.stats = [additions |-> 0, deletions |-> 0, files |-> 0]

\* C23: when get_pr_diff looks for a base commit, it tries origin/main,
\* origin/master and origin/develop in this order and stops at the first
\* that resolves, which is the base; when none resolves the base is the
\* first parent of the pull request's commit; and when that commit has no
\* parent there is no base and the call returns an error result.
C23_BaseCommitInOrder ==
    LookedForBase =>
        LET tried == cf_out.locals.tried
            base_commit == cf_out.locals.base_commit
            last == tried[Len(tried)]
        IN  /\ tried = SubSeq(base_branches, 1, Len(tried))
            /\ \A i \in 1..(Len(tried) - 1) : tried[i] \notin cf_remote.branches
            /\ IF last \in cf_remote.branches
               THEN base_commit = {last} /\ cf_out.result.error = {}
               ELSE /\ tried = base_branches
                    /\ IF cf_remote.has_parent
                       THEN base_commit = {"parent"} /\ cf_out.result.error = {}
                       ELSE base_commit = {} /\ ErrorResult(cf_out.result)
            /\ cf_out.raised = NoValue

\* main does not resolve, master and develop do: master is the base
C23_Witness ==
    /\ LookedForBase
    /\ cf_remote.branches = {"master", "develop"}
    /\ cf_out.locals.base_commit = {"master"}
    /\ cf_out.locals.tried = << "main", "master" >>

\* no branch resolves and the commit has a parent
C23_WitnessParent ==
    /\ LookedForBase
    /\ cf_remote.branches = {}
    /\ cf_out.locals.base_commit = {"parent"}

\* no branch resolves and the commit has no parent
C23_WitnessNoBase ==
    /\ LookedForBase
    /\ cf_remote.branches = {} /\ ~cf_remote.has_parent
    /\ ErrorResult(cf_out.result)

\* get_pr_diff returned the diff of a patch
DiffReturned ==
    /\ cf_out.op = "get_pr_diff"
    /\ cf_out.result.error = {}
    /\ cf_remote.patch # << >>

\* the lines of the patch with the sign given
ChangedLines(patch, sign) ==
    Cardinality({ i \in DOMAIN patch : patch[i].sign = sign })

\* C24: in the result of get_pr_diff, stats.additions is the number of
\* lines of the diff text that start with '+' and not with '+++',
\* stats.deletions the number of those that start with '-' and not with
\* '---', and these are the numbers of the lines the patch adds and
\* deletes: every added or deleted line is counted once.
C24_EveryChangedLineCounted ==
    DiffReturned =>
        /\ cf_out.result.stats.additions =
              Cardinality({ i \in DOMAIN cf_out.result.diff :
                 /\ LineStartsWith(cf_out.result.diff[i], << "+" >>)
                 /\ ~LineStartsWith(cf_out.result.diff[i], << "+", "+", "+" >>) })
        /\ cf_out.result.stats.deletions =
              Cardinality({ i \in DOMAIN cf_out.result.diff :
                 /\ LineStartsWith(cf_out.result.diff[i], << "-" >>)
                 /\ ~LineStartsWith(cf_out.result.diff[i], << "-", "-", "-" >>) })
        /\ cf_out.result.stats.additions = ChangedLines(cf_remote.patch, "+")
        /\ cf_out.result.stats.deletions = ChangedLines(cf_remote.patch, "-")

\* the lines of the patch with the sign given whose text does not begin
\* with the sign twice
ChangedLinesCounted(patch, sign) ==
    Cardinality({ i \in DOMAIN patch :
        /\ patch[i].sign = sign
        /\ ~LineStartsWith(patch[i].content, << sign, sign >>) })

\* what the counts are: the lines of the diff text that start with the
\* sign and not with three of it, which leaves out the added lines that
\* begin with '++' and the deleted lines that begin with '--'
C24_ChangedLinesCountedByPrefix ==
    DiffReturned =>
        /\ cf_out.result.stats.additions = ChangedLinesCounted(cf_remote.patch, "+")
        /\ cf_out.result.stats.deletions = ChangedLinesCounted(cf_remote.patch, "-")

\* a patch that deletes the line '-- c' and adds a line: one addition, no
\* deletion counted
C24_Witness ==
    /\ DiffReturned
    /\ cf_remote.patch = << Change("-", << "-", "-", " ", "c" >>), Change("+", << "x" >>) >>
    /\ cf_out.result.stats.additions = 1
    /\ cf_out.result.stats.deletions = 0

-----------------------------------------------------------------------------
(* Properties of the passes over trees with failing files.                 *)

ScanReturned == sc_out.op = "_analyze_file_extensions"

\* the files the scan attributes to the i-th language of the table
FilesOfLanguage(i) ==
    { f \in sc_files : Scanned(f) /\ MatchingLanguage(f.ext) = i }

\* the entry of the i-th language in the language_stats returned, all 0
\* when it has none
StatsOfLanguage(i) ==
    LET entries == { k \in 1..Len(sc_out.language_stats) :
                       sc_out.language_stats[k].lang = language_extensions[i].lang }
    IN  IF entries = {}
        THEN [file_count |-> 0, total_lines |-> 0, total_size |-> 0]
        ELSE LET k == CHOOSE k \in entries : TRUE
             IN  [file_count |-> sc_out.language_stats[k].file_count,
                  total_lines |-> sc_out.language_stats[k].total_lines,
                  total_size |-> sc_out.language_stats[k].total_size]

\* the extension scan returns, and counts for each language every file of
\* it but those that cannot be sized, with no lines for those that cannot
\* be read
ScanSkipsFailingFilesOnly ==
    ScanReturned =>
        /\ sc_out.raised = NoValue
        /\ \A i \in 1..Len(language_extensions) :
              /\ StatsOfLanguage(i).file_count =
                    Cardinality({ f \in FilesOfLanguage(i) : f.trouble # "size" })
              /\ StatsOfLanguage(i).total_lines =
                    3 * Cardinality({ f \in FilesOfLanguage(i) : f.trouble = "none" })

\* the assembly returns when the path exists, with no entry for a file
\* that cannot be sized, an entry of 0 lines for a file that cannot be
\* read, and an entry with its lines for every other file that is to have
\* one
AssemblySkipsFailingFilesOnly ==
    /\ dp_out.op # NoValue /\ dp_exists => dp_out.raised = NoValue
    /\ ContextReturned =>
          \A file \in { n \in dp_tree : n.kind = "file" } :
             IF file.size = NoSize THEN EntriesFor(file) = {}
             ELSE Eligible(file) =>
                    /\ Cardinality(EntriesFor(file)) = 1
                    /\ \A i \in EntriesFor(file) :
                          dp_out.files[i].lines =
                             IF NodeName(file) = "locked.py" THEN 0 ELSE 3

\* C25: a file that cannot be sized or read during the extension scan of
\* the profiler or during the assembly of the file list is left out or
\* counted with zero lines, every other file is processed as if the
\* failing file were not there, and the pass returns a result.
C25_FailingFileAffectsItselfOnly ==
    ScanSkipsFailingFilesOnly /\ AssemblySkipsFailingFilesOnly

\* a scan over a file that cannot be sized, one that cannot be read and a
\* sound one, all Python: two files counted, three lines
C25_Witness ==
    /\ ScanReturned
    /\ sc_files = { ScanFile("src", "a", ".py", "size"),
                    ScanFile("src", "b", ".PY", "read"),
                    ScanFile("src", "c", ".h", "none") }
    /\ StatsOfLanguage(1).file_count = 1
    /\ StatsOfLanguage(1).total_lines = 0
    /\ StatsOfLanguage(8).file_count = 1
    /\ StatsOfLanguage(8).total_lines = 3

\* an assembly over a file that cannot be sized, one that cannot be read
\* and a sound one: two entries
C25_WitnessAssembly ==
    /\ ContextReturned
    /\ dp_tree = { FileNode(<< "broken.py" >>, NoSize),
                   FileNode(<< "locked.py" >>, SmallSize),
                   FileNode(<< "main.py" >>, SmallSize) }
    /\ Len(dp_out.files) = 2
    /\ \E i, j \in 1..2 : dp_out.files[i].lines = 0 /\ dp_out.files[j].lines = 3

-----------------------------------------------------------------------------
(* Properties of the extension scan.                                       *)

\* the languages whose extension list holds the lower-cased extension
HoldersOf(ext) ==
    { i \in 1..Len(language_extensions) : Lower(ext) \in language_extensions[i].exts }

\* the files the scan analyses: not hidden, in no skipped directory, and
\* sized without an error
Analysed ==
    { f \in sc_files : Scanned(f) /\ f.trouble # "size" }

\* C30: the extension scan counts each file that is not hidden and lies
\* in no skipped directory for the first language in table order whose
\* list holds its lower-cased extension and for no other, so a .h file
\* counts for C and not for Objective-C; the file counts add up to the
\* number of files analysed whose extension some language holds; and the
\* result holds no language without a file.
C30_FirstLanguageGetsTheFile ==
    ScanReturned =>
        /\ \A i \in 1..Len(language_extensions) :
              StatsOfLanguage(i).file_count =
                 Cardinality({ f \in Analysed :
                    /\ i \in HoldersOf(f.ext)
                    /\ \A j \in HoldersOf(f.ext) : i <= j })
        /\ \A i \in 1..Len(language_extensions) :
              language_extensions[i].lang = "Objective-C" =>
                 StatsOfLanguage(i).file_count =
                    Cardinality({ f \in Analysed : Lower(f.ext) \in {".m", ".mm"} })
        /\ SumSeq([k \in 1..Len(sc_out.language_stats) |->
                      sc_out.language_stats[k].file_count])
              = Cardinality({ f \in Analysed : HoldersOf(f.ext) # {} })
        /\ \A k \in 1..Len(sc_out.language_stats) :
              sc_out.language_stats[k].file_count > 0
        /\ \A k, l \in 1..Len(sc_out.language_stats) :
              sc_out.language_stats[k].lang = sc_out.language_stats[l].lang => k = l

\* a .h file, a .m file and a .PY file: C, Objective-C and Python with a
\* file each
C30_Witness ==
    /\ ScanReturned
    /\ sc_files = { ScanFile("src", "c", ".h", "none"),
                    ScanFile("src", "d", ".m", "none"),
                    ScanFile("src", "b", ".PY", "none") }
    /\ [k \in 1..Len(sc_out.language_stats) |->
           << sc_out.language_stats[k].lang, sc_out.language_stats[k].file_count >>]
          = << << "Python", 1 >>, << "C", 1 >>, << "Objective-C", 1 >> >>

\* a hidden file, a file in node_modules and a file without a language:
\* no language in the result
C30_WitnessNothingCounted ==
    /\ ScanReturned
    /\ sc_files = { ScanFile("", ".env", ".py", "none"),
                    ScanFile("node_modules", "n", ".js", "none"),
                    ScanFile("", "notes", ".txt", "none") }
    /\ sc_out.language_stats = << >>

-----------------------------------------------------------------------------
(* Properties of CodeFetcherAgent.clone_repository.                        *)

\* C26: a call of clone_repository with an invalid URL raises ValueError,
\* a call with a valid URL raises nothing but GitError, and a call that
\* raises adds no entry to cloned_repos.
C26_ValueErrorOrGitError ==
    [][cf_calls' # cf_calls /\ cf_out'.op = "clone_repository" =>
          /\ InvalidRepoUrl(cf_out'.repo_url) => cf_out'.raised = "ValueError"
          /\ ~InvalidRepoUrl(cf_out'.repo_url) => cf_out'.raised \in {NoValue, "GitError"}
          /\ cf_out'.raised # NoValue =>
                CachedKeys(cf_cloned') \subseteq CachedKeys(cf_cloned)]_vars

\* what the code does: every failure, an invalid URL too, leaves as
\* GitError, and a call that raises adds no entry to cloned_repos
C26_EveryFailureIsGitError ==
    [][cf_calls' # cf_calls /\ cf_out'.op = "clone_repository" =>
          /\ InvalidRepoUrl(cf_out'.repo_url) => cf_out'.raised = "GitError"
          /\ cf_out'.raised \in {NoValue, "GitError"}
          /\ cf_out'.raised # NoValue =>
                CachedKeys(cf_cloned') \subseteq CachedKeys(cf_cloned)]_vars

\* a call with the URL of a host that is not supported has raised GitError
C26_WitnessInvalidUrl ==
    /\ cf_out.op = "clone_repository"
    /\ cf_out.repo_url = RepoUrl("https", "example.com", << <<"octo">>, <<"app">> >>)
    /\ cf_out.raised = "GitError"
    /\ cf_cloned = {}

\* the same remote repository: the host without regard to case, the owner
\* and the name
SameRemote(origin, clone_url) ==
    /\ Lower(origin.netloc) = Lower(clone_url.netloc)
    /\ origin.owner = clone_url.owner
    /\ origin.repo_name = clone_url.repo_name

\* clone_repository returned a Repo for a valid URL
RepoReturned ==
    /\ cf_out.op = "clone_repository"
    /\ cf_out.raised = NoValue

\* C29: the Repo a call of clone_repository returns for a URL is a clone
\* of the clone_url of this URL and lies at the local path of this URL,
\* whatever calls came before.
C29_RepoOfItsOwnUrl ==
    RepoReturned =>
        \A repo \in cf_out.repo :
            /\ SameRemote(repo.origin, ParseRepoUrl(cf_out.repo_url).clone_url)
            /\ repo.working_dir = GetRepoLocalPath(ParseRepoUrl(cf_out.repo_url))

\* after a clone from github.com, the call for gitlab.com/octo/app returns
\* the Repo cloned from github.com
C29_WitnessOtherPlatform ==
    /\ RepoReturned
    /\ cf_out.repo_url = RepoUrl("https", "gitlab.com", << <<"octo">>, <<"app">> >>)
    /\ \E repo \in cf_out.repo : repo.origin.netloc = "github.com"

\* after a clone of octo/cat_app, the call for octo_cat/app opens the
\* directory of the first, whose name it shares
C29_WitnessSharedPath ==
    /\ RepoReturned
    /\ cf_out.repo_url = RepoUrl("https", "github.com", << <<"octo", "cat">>, <<"app">> >>)
    /\ \E repo \in cf_out.repo : repo.origin.owner = <<"octo">>

-----------------------------------------------------------------------------
(* Properties of the orchestrator and its sub-agents.                      *)

\* the task and the link it needs are set
TaskAndLinkSet(state) ==
    \/ state.user_task = "Review PR" /\ state.pr_link # ""
    \/ state.user_task = "Review source code" /\ state.repo_link # ""

\* C27: when after_agent_callback processes a response that holds a
\* confirmation of the user while the status is "collected", the status
\* is "confirmed" when it returns; and a status that is "confirmed" is
\* still "confirmed" after any later after_agent_callback that leaves the
\* task and its link set.
C27_ConfirmedAndStaysConfirmed ==
    [][or_turns' # or_turns /\ or_out'.op = "after_agent_callback" =>
          /\ (/\ session_state.information_collection_status = "collected"
              /\ or_out'.extracted_info.user_confirmed
              /\ TaskAndLinkSet(session_state'))
                => session_state'.information_collection_status = "confirmed"
          /\ (/\ session_state.information_collection_status = "confirmed"
              /\ TaskAndLinkSet(session_state'))
                => session_state'.information_collection_status = "confirmed"]_vars

\* what the code does: after_agent_callback never returns with the status
\* "confirmed", since _check_information_completeness runs last and sets
\* "collected" or "collecting"
C27_NeverConfirmedOnReturn ==
    /\ session_state.information_collection_status \in {"collecting", "collected"}
    /\ session_state.information_collection_status = "collected"
          <=> TaskAndLinkSet(session_state)

\* the user has confirmed a collected task and link, and the status is
\* "collected" still
C27_WitnessConfirmationLost ==
    /\ or_out.op = "after_agent_callback"
    /\ or_out.was = "collected"
    /\ or_out.extracted_info.user_confirmed
    /\ or_out.extracted_info.task_type = {}
    /\ session_state.information_collection_status = "collected"

\* C28: pr_review_before_agent_callback returns None and records the
\* progress "pr_review_started" when the status is "confirmed", the task is
\* "Review PR" and the PR link is set, and code_review_tool_function stores
\* a "code_analysis" result when the status is "confirmed" and the task is
\* "Review source code"; in every other case the callback returns a text
\* and the tool an error, and the state of the session is as it was.
C28_WorkOnlyOnConfirmedInformation ==
    [][or_turns' # or_turns =>
          /\ or_out'.op = "pr_review_before_agent_callback" =>
                IF /\ session_state.information_collection_status = "confirmed"
                   /\ session_state.user_task = "Review PR"
                   /\ session_state.pr_link # ""
                THEN /\ or_out'.returned = {}
                     /\ \E progress \in session_state'.task_progress :
                           progress.current_stage = "pr_review_started"
                ELSE /\ or_out'.returned # {}
                     /\ session_state' = session_state
          /\ or_out'.op = "code_review_tool_function" =>
                IF /\ session_state.information_collection_status = "confirmed"
                   /\ session_state.user_task = "Review source code"
                THEN /\ or_out'.returned.error = {}
                     /\ "code_analysis" \in session_state'.analysis_results
                ELSE /\ {"error", "message"} \subseteq or_out'.returned.keys
                     /\ or_out'.returned.error # {}
                     /\ session_state' = session_state]_vars

\* the callback has let the review of a pull request start
C28_Witness ==
    /\ or_out.op = "pr_review_before_agent_callback"
    /\ or_out.returned = {}
    /\ session_state.information_collection_status = "confirmed"
    /\ \E progress \in session_state.task_progress :
          progress.current_stage = "pr_review_started"

\* the tool has refused a task that is collected but not confirmed
C28_WitnessBlocked ==
    /\ or_out.op = "code_review_tool_function"
    /\ or_out.returned.error = {"Information not confirmed"}
    /\ session_state.information_collection_status = "collected"
    /\ session_state.user_task = "Review source code"
    /\ session_state.analysis_results = {}

\* the tool has stored its analysis
C28_WitnessAnalysis ==
    /\ or_out.op = "code_review_tool_function"
    /\ or_out.returned.error = {}
    /\ session_state.analysis_results = {"code_analysis"}

====
